---- MODULE Spec2Model ----
(***************************************************************************)
(* Model of the k6 configuration layer: the endpoint registry              *)
(* (config/endpoints.js), the test-suite registry and mergeConfigs         *)
(* (config/test-suites.js), the batch runner (batch-test-runner.js) and    *)
(* its shell wrapper (scripts/run-batch-test.sh), the single-endpoint test *)
(* (endpoint-test.js) and its wrapper (scripts/run-endpoint-test.sh), the  *)
(* endpoint validators of scripts/run-with-dashboard.sh and                *)
(* scripts/run-with-influxdb.sh, and the two versions of add-endpoint.js   *)
(* that scripts/setup-dashboard.sh writes.                                 *)
(*                                                                         *)
(* JavaScript objects are functions from property names to values; an      *)
(* object whose key order matters (the registry) is a sequence of          *)
(* [key, value] entries in Object.keys order.  A path is the sequence of   *)
(* its fragments ("/", a segment, a {placeholder}).  An environment        *)
(* variable that is unset is the empty string: every use in the code is a  *)
(* truthiness test, `||`, `===` or `[ -z ]`, none of which tells unset     *)
(* from empty.                                                             *)
(***************************************************************************)
EXTENDS Integers, Sequences, FiniteSets, TLC

(***************************************************************************)
(* Bounds of the model.                                                    *)
(***************************************************************************)
MaxAdded == 1        \* endpoints that add-endpoint.js may add to the file
MaxEnvLen == 1       \* characters of BATCH_DELAY / BATCH_MAX_CONCURRENT
MaxEnvKeys == 3      \* fragments (keys and commas) of BATCH_ENDPOINTS
MaxIterations == 2   \* iterations of the test function in one k6 run

(***************************************************************************)
(* JavaScript helpers.                                                     *)
(***************************************************************************)
EmptyObj == [k \in {} |-> TRUE]

\* {...a, ...b}
Spread(a, b) == [k \in DOMAIN a \cup DOMAIN b |-> IF k \in DOMAIN b THEN b[k] ELSE a[k]]

\* Names every plain object inherits from Object.prototype: obj[name] is
\* truthy for them although name is not an own property.
ObjectPrototypeNames ==
  {"constructor", "toString", "valueOf", "hasOwnProperty", "__proto__"}

\* Canonical array-index property names ("0", "1", ...) the model uses.
IndexNames == <<"0", "1", "2">>

IsIndexName(k) == \E i \in 1..Len(IndexNames) : IndexNames[i] = k

IndexOf(k) == (CHOOSE i \in 1..Len(IndexNames) : IndexNames[i] = k) - 1

RECURSIVE SelectEntries(_, _, _)
\* the entries of ordered object o, in order, whose key is (is not) an index
SelectEntries(o, wantIndex, i) ==
  IF i > Len(o) THEN <<>>
  ELSE (IF IsIndexName(o[i].key) = wantIndex THEN <<o[i]>> ELSE <<>>)
       \o SelectEntries(o, wantIndex, i + 1)

RECURSIVE SortByIndex(_)
\* insertion sort of index-keyed entries, ascending numeric order
SortByIndex(s) ==
  IF s = <<>> THEN <<>>
  ELSE LET m == CHOOSE i \in 1..Len(s) :
                  \A j \in 1..Len(s) : IndexOf(s[i].key) <= IndexOf(s[j].key)
           rest == [j \in 1..(Len(s) - 1) |-> IF j < m THEN s[j] ELSE s[j + 1]]
       IN <<s[m]>> \o SortByIndex(rest)

HasKey(o, k) == \E i \in 1..Len(o) : o[i].key = k

\* o[k] for an own property k of ordered object o
Get(o, k) == o[CHOOSE i \in 1..Len(o) : o[i].key = k].value

\* o[k] = v on ordered object o: an existing property keeps its place, a
\* new one goes last, except that index names come first in numeric order
SetProp(o, k, v) ==
  IF HasKey(o, k)
  THEN [i \in 1..Len(o) |-> IF o[i].key = k THEN [key |-> k, value |-> v] ELSE o[i]]
  ELSE LET all == Append(o, [key |-> k, value |-> v])
       IN SortByIndex(SelectEntries(all, TRUE, 1)) \o SelectEntries(all, FALSE, 1)

\* Object.keys(o)
ObjectKeys(o) == [i \in 1..Len(o) |-> o[i].key]

\* Object.entries(o)
ObjectEntries(o) == o

RECURSIVE EvalLiteral(_, _, _)
\* evaluation of an object literal whose properties are the entries lit, in
\* source order, onto the object acc
EvalLiteral(lit, i, acc) ==
  IF i > Len(lit) THEN acc
  ELSE EvalLiteral(lit, i + 1, SetProp(acc, lit[i].key, lit[i].value))

(***************************************************************************)
(* config/test-suites.js                                                   *)
(***************************************************************************)
ShippedTestSuites ==
  [smoke |->
     [name |-> "Smoke Test",
      description |-> "Quick validation with minimal load",
      config |-> [vus |-> 1, duration |-> "10s",
                  thresholds |-> [http_req_failed |-> <<"rate<0.01">>]]],
   load |->
     [name |-> "Load Test",
      description |-> "Test under normal expected load",
      config |-> [vus |-> 50, duration |-> "2m",
                  thresholds |-> [http_req_duration |-> <<"p(95)<500">>,
                                  http_req_failed |-> <<"rate<0.01">>]]],
   stress |->
     [name |-> "Stress Test",
      description |-> "Find the breaking point of the system",
      config |-> [stages |-> << [duration |-> "2m", target |-> 50],
                                [duration |-> "5m", target |-> 50],
                                [duration |-> "2m", target |-> 100],
                                [duration |-> "5m", target |-> 100],
                                [duration |-> "2m", target |-> 200],
                                [duration |-> "5m", target |-> 200],
                                [duration |-> "2m", target |-> 0] >>,
                  thresholds |-> [http_req_duration |-> <<"p(95)<1000">>,
                                  http_req_failed |-> <<"rate<0.05">>]]],
   spike |->
     [name |-> "Spike Test",
      description |-> "Test system behavior under sudden load spikes",
      config |-> [stages |-> << [duration |-> "1m", target |-> 10],
                                [duration |-> "1m", target |-> 100],
                                [duration |-> "1m", target |-> 10],
                                [duration |-> "1m", target |-> 200],
                                [duration |-> "1m", target |-> 10] >>,
                  thresholds |-> [http_req_duration |-> <<"p(95)<2000">>,
                                  http_req_failed |-> <<"rate<0.10">>]]],
   endurance |->
     [name |-> "Endurance Test",
      description |-> "Test system stability over long periods",
      config |-> [vus |-> 25, duration |-> "30m",
                  thresholds |-> [http_req_duration |-> <<"p(95)<500">>,
                                  http_req_failed |-> <<"rate<0.01">>]]],
   soak |->
     [name |-> "Soak Test",
      description |-> "Extended testing under sustained load",
      config |-> [vus |-> 10, duration |-> "2h",
                  thresholds |-> [http_req_duration |-> <<"p(95)<300">>,
                                  http_req_failed |-> <<"rate<0.005">>]]]]

(***************************************************************************)
(* config/endpoints.js: the object literal, one entry per property, in     *)
(* source order.                                                           *)
(***************************************************************************)
SmokeTestCfg == [vus |-> 1, duration |-> "10s"]

Endpoint(n, m, p, auth, vus, dur, pDur, pFail, status, rt, hdrs) ==
  [name |-> n, method |-> m, path |-> p,
   baseUrl |-> "https://dev-api.acexr.com",
   requiresAuth |-> auth,
   testConfig |->
     [loadTest |-> [vus |-> vus, duration |-> dur,
                    thresholds |-> [http_req_duration |-> <<pDur>>,
                                    http_req_failed |-> <<pFail>>]],
      smokeTest |-> SmokeTestCfg],
   validation |-> [expectedStatus |-> status, responseTime |-> rt,
                   requiredHeaders |-> hdrs]]

ShippedEndpointsFile ==
  << [key |-> "users-me", value |->
        Endpoint("Get Current User", "GET", <<"/", "platform-services", "/", "v2", "/", "users", "/", "me">>,
                 TRUE, 100, "1m", "p(95)<100", "rate<0.01",
                 200, 500, <<"Content-Type">>)],
     [key |-> "client-configs", value |->
        Endpoint("Get Client Configurations", "GET",
                 <<"/", "platform-services", "/", "v2", "/", "client-configs">>,
                 FALSE, 50, "2m", "p(95)<200", "rate<0.01",
                 200, 1000, <<"Content-Type">>)],
     [key |-> "health-check", value |->
        Endpoint("Health Check", "GET", <<"/", "platform-services", "/", "v2", "/", "health">>,
                 FALSE, 200, "5m", "p(95)<50", "rate<0.001",
                 200, 100, <<"Content-Type">>)],
     [key |-> "create-user", value |->
        Endpoint("Create User", "POST", <<"/", "platform-services", "/", "v2", "/", "users">>,
                 TRUE, 30, "1m", "p(95)<300", "rate<0.05",
                 201, 1000, <<"Content-Type", "Location">>)],
     [key |-> "update-user", value |->
        Endpoint("Update User", "PATCH", <<"/", "platform-services", "/", "v2", "/", "users", "/", "{id}">>,
                 TRUE, 20, "1m", "p(95)<250", "rate<0.03",
                 200, 800, <<"Content-Type">>)],
     [key |-> "auth/signin", value |->
        Endpoint("Sign In", "POST", <<"/", "platform-services", "/", "v2", "/", "auth", "/", "signin">>,
                 TRUE, 20, "1m", "p95<250", "rate<0.03",
                 200, 800, <<"Content-Type">>)] >>

\* the module's `endpoints` binding after the file has been evaluated
LoadEndpoints(file) == EvalLiteral(file, 1, <<>>)

(***************************************************************************)
(* State.                                                                  *)
(***************************************************************************)
VARIABLES
  endpointsFile,  \* config/endpoints.js on disk: the entries of the literal
  endpoints,      \* the `endpoints` binding of the running JavaScript process
  testSuites,     \* the `testSuites` binding of the running process
  merged,         \* the last mergeConfigs call: its arguments and outcome
  built,          \* the last buildUrl call: its arguments and outcome
  env,            \* environment variables of the running process
  sh,             \* run-batch-test.sh: position, argument, output, exit code
  k6,             \* batch-test-runner.js under k6: position and module state
  esh,            \* run-endpoint-test.sh: position, arguments, output, exit code
  et,             \* endpoint-test.js under k6: position and module state
  ae,             \* the last run of add-endpoint.js: its inputs and outcome
  got             \* the last call of a getter of config/endpoints.js

vars == <<endpointsFile, endpoints, testSuites, merged, built, env, sh, k6, esh, et, ae, got>>

(***************************************************************************)
(* Property lookup obj[name] on a plain object: an own property, else a    *)
(* member inherited from Object.prototype (truthy, without the fields of   *)
(* the registry's values), else undefined.                                 *)
(***************************************************************************)
Undefined == [tag |-> "undefined"]

Inherited(name) == [tag |-> "inherited", name |-> name]

Own(v) == [tag |-> "own", v |-> v]

PropertyOf(obj, name) ==
  IF name \in DOMAIN obj THEN Own(obj[name])
  ELSE IF name \in ObjectPrototypeNames THEN Inherited(name)
  ELSE Undefined

Truthy(p) == p.tag # "undefined"

Return(v) == [kind |-> "return", value |-> v]

Throw(e, msg) == [kind |-> "throw", error |-> e, message |-> msg]

(***************************************************************************)
(* config/endpoints.js helpers.                                            *)
(***************************************************************************)
getEndpoint(key) ==
  IF HasKey(endpoints, key) THEN Own(Get(endpoints, key))
  ELSE IF key \in ObjectPrototypeNames THEN Inherited(key)
  ELSE Undefined

\* getAllEndpoints reading the keys off the entries of the file
getAllEndpoints_FileKeys == [i \in 1..Len(endpointsFile) |-> endpointsFile[i].key]

getAllEndpoints == ObjectKeys(endpoints)

\* String.prototype.toUpperCase on the method names the callers pass
toUpperCase(s) ==
  CASE s = "get" -> "GET"
    [] s = "post" -> "POST"
    [] s = "put" -> "PUT"
    [] s = "patch" -> "PATCH"
    [] s = "delete" -> "DELETE"
    [] OTHER -> s

RECURSIVE FilterByMethod(_, _, _)
FilterByMethod(entries, method, i) ==
  IF i > Len(entries) THEN <<>>
  ELSE (IF entries[i].value.method = toUpperCase(method) THEN <<entries[i]>> ELSE <<>>)
       \o FilterByMethod(entries, method, i + 1)

\* getEndpointsByMethod without the filter
getEndpointsByMethod_Unfiltered(method) ==
  EvalLiteral(ObjectEntries(endpoints), 1, <<>>)

\* getEndpointsByMethod that selects the GET endpoints whatever the argument
getEndpointsByMethod_IgnoresArgument(method) ==
  EvalLiteral(FilterByMethod(ObjectEntries(endpoints), "GET", 1), 1, <<>>)

getEndpointsByMethod(method) ==
  EvalLiteral(FilterByMethod(ObjectEntries(endpoints), method, 1), 1, <<>>)

RECURSIVE FilterByAuth(_, _)
FilterByAuth(entries, i) ==
  IF i > Len(entries) THEN <<>>
  ELSE (IF entries[i].value.requiresAuth THEN <<entries[i]>> ELSE <<>>)
       \o FilterByAuth(entries, i + 1)

getAuthenticatedEndpoints ==
  EvalLiteral(FilterByAuth(ObjectEntries(endpoints), 1), 1, <<>>)

\* no getter has been called
NoGet == [fn |-> "none", argument |-> "", result |-> <<>>]

\* what the getter fn returns for the argument
GetterResult(fn, argument) ==
  CASE fn = "getEndpoint" -> <<getEndpoint(argument)>>
    [] fn = "getAllEndpoints" -> getAllEndpoints
    [] fn = "getEndpointsByMethod" -> getEndpointsByMethod(argument)
    [] fn = "getAuthenticatedEndpoints" -> getAuthenticatedEndpoints

\* a call of a getter whose filters delete the other entries from the
\* registry itself
GetterCall_FiltersInPlace(fn, argument) ==
  /\ got' = [fn |-> fn, argument |-> argument, result |-> GetterResult(fn, argument)]
  /\ endpoints' = IF fn \in {"getEndpointsByMethod", "getAuthenticatedEndpoints"}
                  THEN GetterResult(fn, argument)
                  ELSE endpoints
  /\ UNCHANGED <<endpointsFile, testSuites, merged, built, env, sh, k6, esh, et, ae>>

\* one call of a getter on the loaded registry
GetterCall(fn, argument) ==
  /\ got' = [fn |-> fn, argument |-> argument, result |-> GetterResult(fn, argument)]
  /\ UNCHANGED <<endpointsFile, endpoints, testSuites, merged, built, env, sh, k6, esh, et, ae>>

(***************************************************************************)
(* config/test-suites.js: mergeConfigs.                                    *)
(***************************************************************************)
getAllTestSuiteNames == DOMAIN testSuites

\* endpoint.testConfig?.[testSuiteName] || {}
EndpointConfigOf(endpoint, testSuiteName) ==
  IF "testConfig" \in DOMAIN endpoint
  THEN LET p == PropertyOf(endpoint.testConfig, testSuiteName)
       IN IF p.tag = "own" THEN p.v ELSE EmptyObj
  ELSE EmptyObj

\* ...endpointConfig.thresholds
ThresholdsOf(cfg) == IF "thresholds" \in DOMAIN cfg THEN cfg.thresholds ELSE EmptyObj

\* mergeConfigs without the merge of the thresholds
mergeConfigs_ShallowOnly(endpoint, testSuiteName) ==
  LET testSuite == PropertyOf(testSuites, testSuiteName)
  IN IF ~Truthy(testSuite)
     THEN Throw("Error", "Test suite '" \o testSuiteName \o "' not found")
     ELSE IF testSuite.tag = "inherited"
     THEN Throw("TypeError", "Cannot read properties of undefined (reading 'thresholds')")
     ELSE Return(Spread(testSuite.v.config, EndpointConfigOf(endpoint, testSuiteName)))

\* mergeConfigs with the two spreads of the fields in the other order
mergeConfigs_SuiteWins(endpoint, testSuiteName) ==
  LET testSuite == PropertyOf(testSuites, testSuiteName)
  IN IF ~Truthy(testSuite)
     THEN Throw("Error", "Test suite '" \o testSuiteName \o "' not found")
     ELSE IF testSuite.tag = "inherited"
     THEN Throw("TypeError", "Cannot read properties of undefined (reading 'thresholds')")
     ELSE LET endpointConfig == EndpointConfigOf(endpoint, testSuiteName)
              shallow == Spread(endpointConfig, testSuite.v.config)
              thresholds == Spread(testSuite.v.config.thresholds, ThresholdsOf(endpointConfig))
          IN Return([k \in DOMAIN shallow \cup {"thresholds"} |->
                       IF k = "thresholds" THEN thresholds ELSE shallow[k]])

mergeConfigs(endpoint, testSuiteName) ==
  LET testSuite == PropertyOf(testSuites, testSuiteName)
  IN IF ~Truthy(testSuite)
     THEN Throw("Error", "Test suite '" \o testSuiteName \o "' not found")
     ELSE IF testSuite.tag = "inherited"
     THEN Throw("TypeError", "Cannot read properties of undefined (reading 'thresholds')")
     ELSE LET endpointConfig == EndpointConfigOf(endpoint, testSuiteName)
              shallow == Spread(testSuite.v.config, endpointConfig)
              thresholds == Spread(testSuite.v.config.thresholds, ThresholdsOf(endpointConfig))
          IN Return([k \in DOMAIN shallow \cup {"thresholds"} |->
                       IF k = "thresholds" THEN thresholds ELSE shallow[k]])

(***************************************************************************)
(* Inputs of mergeConfigs: the endpoints of the registry and endpoint      *)
(* objects whose testConfig carries an override under one name.            *)
(***************************************************************************)
OverrideFields ==
  { EmptyObj,
    [vus |-> 7, duration |-> "9s"],
    [stages |-> << [duration |-> "1s", target |-> 3] >>],
    [tags |-> [team |-> "perf"]] }

OverrideThresholds ==
  { EmptyObj,
    [thresholds |-> EmptyObj],
    [thresholds |-> [http_req_failed |-> <<"rate<0.5">>]],
    [thresholds |-> [http_req_duration |-> <<"p(95)<9">>, checks |-> <<"rate>0.9">>]] }

Overrides == { Spread(f, t) : f \in OverrideFields, t \in OverrideThresholds }

OverrideNames == {"load", "stress", "loadTest"}

MergeEndpoints ==
  { endpoints[i].value : i \in 1..Len(endpoints) }
  \cup { [name |-> "No Config"] }
  \cup { [name |-> "Override", testConfig |-> [n \in {s} |-> o]] :
           s \in OverrideNames, o \in Overrides }

MergeSuiteNames ==
  DOMAIN ShippedTestSuites
  \cup {"constructor", "__proto__", "loadTest", "unknown-suite"}

NoCall ==
  [endpoint |-> EmptyObj, testSuiteName |-> "", result |-> [kind |-> "none"],
   repeated |-> FALSE]

\* the call repeats the arguments of the call before it
Repeats(e, s) ==
  merged.result.kind # "none" /\ merged.endpoint = e /\ merged.testSuiteName = s

\* a mergeConfigs that merges the endpoint's thresholds into the suite's
\* own thresholds object
MergeCall_AssignsIntoSuite(e, s) ==
  /\ merged' = [endpoint |-> e, testSuiteName |-> s, result |-> mergeConfigs(e, s),
                repeated |-> Repeats(e, s)]
  /\ testSuites' =
       IF mergeConfigs(e, s).kind = "return"
       THEN [testSuites EXCEPT ![s].config.thresholds = mergeConfigs(e, s).value.thresholds]
       ELSE testSuites
  /\ UNCHANGED <<endpointsFile, endpoints, built, env, sh, k6, esh, et, ae, got>>

\* one call mergeConfigs(e, s) on the loaded registries
MergeCall(e, s) ==
  /\ merged' = [endpoint |-> e, testSuiteName |-> s, result |-> mergeConfigs(e, s),
                repeated |-> Repeats(e, s)]
  /\ UNCHANGED <<endpointsFile, endpoints, testSuites, built, env, sh, k6, esh, et, ae, got>>

(***************************************************************************)
(* Strings the code parses are sequences of fragments: a fragment is a     *)
(* separator character or a run of text without separators.                *)
(***************************************************************************)
RECURSIVE Split_DropEmpty(_, _)
\* split that leaves out the empty pieces
Split_DropEmpty(str, sep) ==
  IF str = <<>> THEN <<>>
  ELSE IF Head(str) = sep THEN Split_DropEmpty(Tail(str), sep)
  ELSE LET rest == Split_DropEmpty(Tail(str), sep)
       IN IF Len(str) > 1 /\ str[2] # sep
          THEN <<Head(str) \o Head(rest)>> \o Tail(rest)
          ELSE <<Head(str)>> \o rest

RECURSIVE Split(_, _)
\* String.prototype.split(sep): the pieces between separators, in order,
\* empty pieces included
Split(str, sep) ==
  IF str = <<>> THEN <<"">>
  ELSE LET rest == Split(Tail(str), sep)
       IN IF Head(str) = sep
          THEN <<"">> \o rest
          ELSE <<Head(str) \o Head(rest)>> \o Tail(rest)

RECURSIVE Join(_, _)
\* Array.prototype.join(sep)
Join(arr, sep) ==
  IF arr = <<>> THEN ""
  ELSE IF Len(arr) = 1 THEN arr[1]
  ELSE arr[1] \o sep \o Join(Tail(arr), sep)

\* JavaScript numbers: a finite integer or NaN
Num(n) == [t |-> "num", n |-> n]

NaN == [t |-> "NaN"]

HexDigits == <<"0", "1", "2", "3", "4", "5", "6", "7", "8", "9",
               "a", "b", "c", "d", "e", "f">>

DigitValue(c) == (CHOOSE i \in 1..Len(HexDigits) : HexDigits[i] = c) - 1

IsDigit(c, radix) ==
  \E i \in 1..radix : HexDigits[i] = c

RECURSIVE SkipWhiteSpace(_)
SkipWhiteSpace(str) ==
  IF str # <<>> /\ Head(str) = " " THEN SkipWhiteSpace(Tail(str)) ELSE str

RECURSIVE ParseDigits(_, _, _)
\* the value of the longest prefix of digits of str, after acc; -1 when
\* str does not start with a digit and nothing has been read
ParseDigits(str, radix, acc) ==
  IF str # <<>> /\ IsDigit(Head(str), radix)
  THEN ParseDigits(Tail(str), radix,
                   (IF acc < 0 THEN 0 ELSE acc) * radix + DigitValue(Head(str)))
  ELSE acc

\* parseInt(str) with no radix argument
parseInt(str) ==
  LET s1 == SkipWhiteSpace(str)
      negative == s1 # <<>> /\ Head(s1) = "-"
      s2 == IF s1 # <<>> /\ Head(s1) \in {"+", "-"} THEN Tail(s1) ELSE s1
      hex == Len(s2) >= 2 /\ s2[1] = "0" /\ s2[2] \in {"x", "X"}
      s3 == IF hex THEN Tail(Tail(s2)) ELSE s2
      v == ParseDigits(s3, IF hex THEN 16 ELSE 10, -1)
  IN IF v < 0 THEN NaN ELSE Num(IF negative THEN 0 - v ELSE v)

\* a || b on strings held as fragment sequences
OrElse(a, b) == IF a # <<>> THEN a ELSE b

\* a || b on strings
OrElseStr(a, b) == IF a # "" THEN a ELSE b

\* field || d on a number field that may be absent
NumOr(obj, field, d) ==
  IF field \in DOMAIN obj /\ obj[field].t = "num" /\ obj[field].n # 0
  THEN obj[field] ELSE Num(d)

(***************************************************************************)
(* batch-test-runner.js: module scope.                                     *)
(***************************************************************************)
BatchNames == <<"smoke", "getEndpointsLoad", "postEndpointsStress", "custom">>

batchConfig ==
  [smoke |->
     [name |-> "Smoke Test All Endpoints",
      description |-> "Quick validation of all endpoints",
      endpoints |-> getAllEndpoints,
      testSuite |-> "smoke",
      parallel |-> FALSE,
      delayBetweenEndpoints |-> Num(5)],
   getEndpointsLoad |->
     [name |-> "Load Test All GET Endpoints",
      description |-> "Load test all GET endpoints",
      endpoints |-> ObjectKeys(getEndpointsByMethod("GET")),
      testSuite |-> "load",
      parallel |-> TRUE,
      maxConcurrent |-> Num(3)],
   postEndpointsStress |->
     [name |-> "Stress Test All POST Endpoints",
      description |-> "Stress test all POST endpoints",
      endpoints |-> ObjectKeys(getEndpointsByMethod("POST")),
      testSuite |-> "stress",
      parallel |-> FALSE,
      delayBetweenEndpoints |-> Num(10)],
   custom |->
     [name |-> "Custom Batch Test",
      description |-> "Custom endpoint and test suite combination",
      endpoints |-> IF env.BATCH_ENDPOINTS # <<>>
                    THEN Split(env.BATCH_ENDPOINTS, ",")
                    ELSE <<"users-me", "health-check">>,
      testSuite |-> OrElseStr(env.BATCH_TEST_SUITE, "load"),
      parallel |-> (env.BATCH_PARALLEL = "true"),
      maxConcurrent |-> parseInt(OrElse(env.BATCH_MAX_CONCURRENT, <<"2">>)),
      delayBetweenEndpoints |-> parseInt(OrElse(env.BATCH_DELAY, <<"5">>))]]

batchKey == OrElseStr(env.BATCH_CONFIG, "smoke")

BatchThresholds ==
  [http_req_duration |-> <<"p95<1000">>, http_req_failed |-> <<"rate<0.05">>]

\* the module body with the suite's thresholds spread over the batch's
ModuleScope_SuiteThresholdsWin ==
  LET batch == PropertyOf(batchConfig, batchKey)
  IN IF ~Truthy(batch)
     THEN Throw("Error", "Batch configuration '" \o batchKey
                           \o "' not found. Available: " \o Join(BatchNames, ", "))
     ELSE IF batch.tag = "inherited"
     THEN Throw("TypeError", "Cannot read properties of undefined (reading 'config')")
     ELSE LET suite == PropertyOf(testSuites, batch.v.testSuite)
          IN IF ~Truthy(suite)
             THEN Throw("TypeError", "Cannot read properties of undefined (reading 'config')")
             ELSE IF suite.tag = "inherited"
             THEN Throw("TypeError",
                        "Cannot read properties of undefined (reading 'thresholds')")
             ELSE Return(
               [batch |-> batch.v,
                metadata |->
                  [batchName |-> batch.v.name,
                   batchDescription |-> batch.v.description,
                   endpoints |-> batch.v.endpoints,
                   testSuite |-> batch.v.testSuite,
                   parallel |-> batch.v.parallel,
                   maxConcurrent |-> NumOr(batch.v, "maxConcurrent", 1),
                   delayBetweenEndpoints |-> NumOr(batch.v, "delayBetweenEndpoints", 0)],
                options |->
                  Spread(suite.v.config,
                         [thresholds |->
                            Spread(BatchThresholds, suite.v.config.thresholds)])])

\* the module body: the batch lookup, `metadata` and `options`, or the
\* exception that ends the evaluation
ModuleScope ==
  LET batch == PropertyOf(batchConfig, batchKey)
  IN IF ~Truthy(batch)
     THEN Throw("Error", "Batch configuration '" \o batchKey
                           \o "' not found. Available: " \o Join(BatchNames, ", "))
     ELSE IF batch.tag = "inherited"
     THEN Throw("TypeError", "Cannot read properties of undefined (reading 'config')")
     ELSE LET suite == PropertyOf(testSuites, batch.v.testSuite)
          IN IF ~Truthy(suite)
             THEN Throw("TypeError", "Cannot read properties of undefined (reading 'config')")
             ELSE IF suite.tag = "inherited"
             THEN Throw("TypeError",
                        "Cannot read properties of undefined (reading 'thresholds')")
             ELSE Return(
               [batch |-> batch.v,
                metadata |->
                  [batchName |-> batch.v.name,
                   batchDescription |-> batch.v.description,
                   endpoints |-> batch.v.endpoints,
                   testSuite |-> batch.v.testSuite,
                   parallel |-> batch.v.parallel,
                   maxConcurrent |-> NumOr(batch.v, "maxConcurrent", 1),
                   delayBetweenEndpoints |-> NumOr(batch.v, "delayBetweenEndpoints", 0)],
                options |->
                  Spread(suite.v.config,
                         [thresholds |->
                            Spread(suite.v.config.thresholds, BatchThresholds)])])

(***************************************************************************)
(* add-endpoint.js                                                         *)
(***************************************************************************)
\* String.prototype.includes(word) on a path, fragment-wise
Includes(path, word) == \E i \in 1..Len(path) : path[i] = word

\* path.split('/').pop()
LastSegment(path) == LET parts == Split(path, "/") IN parts[Len(parts)]

generateEndpointConfig(endpointKey, method, path, baseUrl) ==
  LET methodUpper == toUpperCase(method)
      isGet == methodUpper = "GET"
      isPost == methodUpper = "POST"
  IN [name |-> methodUpper \o " " \o OrElseStr(LastSegment(path), "Resource"),
      method |-> methodUpper,
      path |-> path,
      baseUrl |-> baseUrl,
      requiresAuth |-> (~isGet \/ Includes(path, "users") \/ Includes(path, "profile")),
      testConfig |->
        [loadTest |-> [vus |-> IF isGet THEN 100 ELSE 50,
                       duration |-> "1m",
                       thresholds |->
                         [http_req_duration |-> <<IF isGet THEN "p95<100" ELSE "p95<300">>,
                          http_req_failed |-> <<"rate<0.01">>]],
         smokeTest |-> SmokeTestCfg],
      validation |->
        [expectedStatus |-> IF isPost THEN 201 ELSE 200,
         responseTime |-> IF isGet THEN 500 ELSE 1000,
         requiredHeaders |-> IF isPost THEN <<"Content-Type", "Location">>
                             ELSE <<"Content-Type">>]]

\* the file after the new entry has been inserted behind the opening brace
updateEndpointsFile(file, endpointKey, endpointConfig) ==
  <<[key |-> endpointKey, value |-> endpointConfig]>> \o file

(***************************************************************************)
(* Processes.  The tools are started one at a time from a terminal.        *)
(***************************************************************************)
NoEnv ==
  [BATCH_CONFIG |-> "", BATCH_ENDPOINTS |-> <<>>, BATCH_TEST_SUITE |-> "",
   BATCH_PARALLEL |-> "", BATCH_MAX_CONCURRENT |-> <<>>, BATCH_DELAY |-> <<>>,
   AUTH_TOKEN |-> "", ENDPOINT |-> "", TEST_SUITE |-> ""]

NoModule == [kind |-> "none"]

K6Off ==
  [pc |-> "off", batch |-> Undefined, module |-> NoModule, data |-> EmptyObj, index |-> 0,
   iteration |-> 0, events |-> <<>>, exit |-> -1]

ShOff ==
  [pc |-> "off", arg |-> <<>>, installed |-> FALSE, BATCH_CONFIG |-> <<>>,
   out |-> <<>>, k6Runs |-> 0, exit |-> -1]

NoBuild == [endpointKey |-> "", params |-> <<>>, result |-> [kind |-> "none"]]

EtOff ==
  [pc |-> "off", module |-> NoModule, data |-> EmptyObj, iteration |-> 0,
   events |-> <<>>, exit |-> -1]

EshOff ==
  [pc |-> "off", args |-> <<>>, installed |-> FALSE, ENDPOINT |-> <<>>,
   TEST_SUITE |-> <<>>, out |-> <<>>, k6Runs |-> 0, exit |-> -1]

\* add-endpoint.js has not been run
NoRun ==
  [version |-> "", args |-> <<>>, mode |-> "none", inputs |-> EmptyObj, errors |-> <<>>,
   prompts |-> <<>>, answer |-> <<>>, config |-> EmptyObj, out |-> <<>>, exit |-> -1,
   wrote |-> FALSE, before |-> <<>>]

Idle == sh.pc = "off" /\ k6.pc = "off" /\ esh.pc = "off" /\ et.pc = "off"

\* a fresh k6 process evaluating batch-test-runner.js and its imports
K6Launched == [K6Off EXCEPT !.pc = "init"]

Init ==
  /\ endpointsFile = ShippedEndpointsFile
  /\ endpoints = LoadEndpoints(ShippedEndpointsFile)
  /\ testSuites = ShippedTestSuites
  /\ merged = NoCall
  /\ built = NoBuild
  /\ env = NoEnv
  /\ sh = ShOff
  /\ k6 = K6Off
  /\ esh = EshOff
  /\ et = EtOff
  /\ ae = NoRun
  /\ got = NoGet

\* node scripts/add-endpoint.js with inputs that pass validateInput and a
\* confirmation answered with y
AddEndpoint(endpointKey, method, path, baseUrl) ==
  /\ Idle
  /\ Len(endpointsFile) < Len(ShippedEndpointsFile) + MaxAdded
  /\ endpointsFile' =
       updateEndpointsFile(endpointsFile, endpointKey,
                           generateEndpointConfig(endpointKey, method, path, baseUrl))
  /\ UNCHANGED <<endpoints, testSuites, merged, built, esh, et, env, sh, k6, ae, got>>

\* k6 run scripts/batch-test-runner.js typed at the terminal, environment e
StartK6(e) ==
  /\ Idle
  /\ env' = e
  /\ k6' = K6Launched
  /\ endpoints' = LoadEndpoints(endpointsFile)
  /\ testSuites' = ShippedTestSuites
  /\ UNCHANGED <<endpointsFile, merged, built, esh, et, sh, ae, got>>

\* exit codes of a k6 run that failed (script exception, crossed thresholds)
FailureCodes == {99, 107}

\* evaluation of the module body (the init stage)
K6Init ==
  /\ k6.pc = "init"
  /\ IF ModuleScope.kind = "throw"
     THEN \E c \in FailureCodes :
            k6' = [k6 EXCEPT !.pc = "exited", !.batch = PropertyOf(batchConfig, batchKey),
                            !.module = ModuleScope, !.exit = c]
     ELSE k6' = [k6 EXCEPT !.pc = "setup", !.batch = PropertyOf(batchConfig, batchKey),
                           !.module = ModuleScope]
  /\ UNCHANGED <<endpointsFile, endpoints, testSuites, merged, built, esh, et, env, sh, ae, got>>

\* JSON.stringify then JSON.parse of a number: NaN becomes null
JsonNum(x) == IF x.t = "NaN" THEN [t |-> "null"] ELSE x

\* the batch object as the test function receives it from setup()
JsonBatch(b) ==
  [f \in DOMAIN b |->
     IF f \in {"maxConcurrent", "delayBetweenEndpoints"} THEN JsonNum(b[f]) ELSE b[f]]

\* setup(): logs the batch and returns the data of the iterations
K6Setup ==
  /\ k6.pc = "setup"
  /\ LET batch == k6.module.value.batch
     IN k6' = [k6 EXCEPT !.pc = "default", !.index = 1, !.iteration = 1,
                         !.data = [batch |-> JsonBatch(batch),
                                   endpoints |-> batch.endpoints,
                                   testSuite |-> batch.testSuite],
                         !.events = Append(@, [ev |-> "setup"])]
  /\ UNCHANGED <<endpointsFile, endpoints, testSuites, merged, built, esh, et, env, sh, ae, got>>

(***************************************************************************)
(* batch-test-runner.js: the test function.  `endpoints` in its body is    *)
(* the array of keys destructured from data, not the imported registry.    *)
(***************************************************************************)
ArrayPrototypeNames == {"forEach", "map", "join", "filter", "push"}

\* arr[name] on an array of strings
ArrayPropertyOf(arr, name) ==
  IF IsIndexName(name) /\ IndexOf(name) < Len(arr)
  THEN [tag |-> "element", v |-> arr[IndexOf(name) + 1]]
  ELSE IF name = "length" THEN [tag |-> "length", n |-> Len(arr)]
  ELSE IF name \in ArrayPrototypeNames \cup ObjectPrototypeNames THEN Inherited(name)
  ELSE Undefined

\* truthiness of a looked-up value
TruthyValue(p) ==
  CASE p.tag = "undefined" -> FALSE
    [] p.tag = "element" -> p.v # ""
    [] p.tag = "length" -> p.n # 0
    [] OTHER -> TRUE

\* the fields the test function reads from the looked-up value: those of
\* an endpoint object; a string, a number or a function has none of them
FieldsOf(p) == IF p.tag = "own" THEN p.v ELSE EmptyObj

\* `const endpoint = endpoints[endpointKey]` inside the test function
LookupEndpoint(data, endpointKey) == ArrayPropertyOf(data.endpoints, endpointKey)

Methods == {"GET", "POST", "PUT", "PATCH", "DELETE"}

Responses ==
  [status : {200, 201, 500}, duration : {50, 900},
   headers : SUBSET {"Content-Type", "Location"}]

RECURSIVE Every(_, _)
\* requiredHeaders.every(header => r.headers[header] !== undefined)
Every(required, headers) ==
  required = <<>> \/ (Head(required) \in headers /\ Every(Tail(required), headers))

\* the forEach callback for endpointKey at position index (from 0): the
\* events it produces, in order
DefaultCallback(data, endpointKey, index, r) ==
  LET endpoint == LookupEndpoint(data, endpointKey)
      ep == FieldsOf(endpoint)
      method == IF "method" \in DOMAIN ep THEN ep.method ELSE "undefined"
      url == IF "baseUrl" \in DOMAIN ep /\ "path" \in DOMAIN ep
             THEN <<ep.baseUrl>> \o ep.path ELSE <<"NaN">>
      requiresAuth == "requiresAuth" \in DOMAIN ep /\ ep.requiresAuth
      authToken == env.AUTH_TOKEN
      headers ==
        IF requiresAuth /\ authToken # ""
        THEN ("Content-Type" :> "application/json") @@ ("User-Agent" :> "k6-batch-test")
             @@ ("Authorization" :> ("Bearer " \o authToken))
        ELSE ("Content-Type" :> "application/json") @@ ("User-Agent" :> "k6-batch-test")
      testing == <<[ev |-> "testing", key |-> endpointKey]>>
      authWarn == IF requiresAuth /\ authToken = ""
                  THEN <<[ev |-> "warn", what |-> "AUTH_TOKEN not provided",
                          key |-> endpointKey]>>
                  ELSE <<>>
      request == [ev |-> "request", key |-> endpointKey, method |-> method,
                  url |-> url, headers |-> headers,
                  body |-> IF method \in {"POST", "PUT", "PATCH"}
                           THEN "generateTestData" ELSE "none"]
      checked ==
        IF "validation" \in DOMAIN ep
        THEN <<[ev |-> "check", key |-> endpointKey, response |-> r,
                checks |->
                  [status |-> (r.status = ep.validation.expectedStatus),
                   time |-> (r.duration < ep.validation.responseTime),
                   headers |-> Every(ep.validation.requiredHeaders, r.headers)]],
               [ev |-> "log", key |-> endpointKey]>>
        ELSE <<[ev |-> "error", key |-> endpointKey]>>
      slept ==
        IF ~data.batch.parallel /\ index < Len(data.endpoints) - 1
        THEN <<[ev |-> "sleep", key |-> endpointKey,
                seconds |-> data.batch.delayBetweenEndpoints]>>
        ELSE <<>>
  IN IF ~TruthyValue(endpoint)
     THEN <<[ev |-> "warn", what |-> "not found, skipping", key |-> endpointKey]>>
     ELSE IF method \notin Methods
     THEN testing \o authWarn
          \o <<[ev |-> "warn", what |-> "Unsupported HTTP method", key |-> endpointKey]>>
     ELSE testing \o authWarn \o <<request>> \o checked \o slept

\* one turn of endpoints.forEach in the test function
K6Default ==
  /\ k6.pc = "default"
  /\ k6.index <= Len(k6.data.endpoints)
  /\ \E r \in Responses :
       k6' = [k6 EXCEPT
                !.events = @ \o DefaultCallback(k6.data, k6.data.endpoints[k6.index],
                                                k6.index - 1, r),
                !.index = @ + 1]
  /\ UNCHANGED <<endpointsFile, endpoints, testSuites, merged, built, esh, et, env, sh, ae, got>>

\* the test function returned and k6 calls it again
K6NextIteration ==
  /\ k6.pc = "default"
  /\ k6.index > Len(k6.data.endpoints)
  /\ k6.iteration < MaxIterations
  /\ k6' = [k6 EXCEPT !.index = 1, !.iteration = @ + 1]
  /\ UNCHANGED <<endpointsFile, endpoints, testSuites, merged, built, esh, et, env, sh, ae, got>>

\* the run is over: teardown(), then k6 exits with 0 or with a failure code
K6Teardown ==
  /\ k6.pc = "default"
  /\ k6.index > Len(k6.data.endpoints)
  /\ \E c \in {0} \cup FailureCodes :
       k6' = [k6 EXCEPT !.pc = "exited", !.exit = c,
                        !.events = Append(@, [ev |-> "teardown"])]
  /\ UNCHANGED <<endpointsFile, endpoints, testSuites, merged, built, esh, et, env, sh, ae, got>>

(***************************************************************************)
(* scripts/run-batch-test.sh.  The positional argument is a sequence of    *)
(* fragments: words and blanks.                                            *)
(***************************************************************************)
DEFAULT_BATCH == "smoke"

RECURSIVE NonEmpty(_)
NonEmpty(pieces) ==
  IF pieces = <<>> THEN <<>>
  ELSE (IF Head(pieces) # "" THEN <<Head(pieces)>> ELSE <<>>) \o NonEmpty(Tail(pieces))

\* the words an unquoted expansion of str yields
Words(str) == NonEmpty(Split(str, " "))

\* $1 of a function called with the unquoted expansion of str
FirstWord(str) == IF Words(str) = <<>> THEN "" ELSE Words(str)[1]

\* the text of a fragment sequence
Text(str) == Join(str, "")

\* ./run-batch-test.sh arg typed at the terminal, environment e
StartShell(arg, installed, e) ==
  /\ Idle
  /\ env' = e
  /\ sh' = [ShOff EXCEPT !.pc = "check_k6", !.arg = arg, !.installed = installed]
  /\ UNCHANGED <<endpointsFile, endpoints, testSuites, merged, built, esh, et, k6, ae, got>>

check_k6 ==
  /\ sh.pc = "check_k6"
  /\ sh' = IF sh.installed
           THEN [sh EXCEPT !.pc = "parse", !.out = Append(@, "Found k6")]
           ELSE [sh EXCEPT !.pc = "exited", !.exit = 1,
                           !.out = Append(@, "k6 is not installed")]
  /\ UNCHANGED <<endpointsFile, endpoints, testSuites, merged, built, esh, et, env, k6, ae, got>>

\* BATCH_CONFIG=${1:-$DEFAULT_BATCH} and the help test of main
ParseArguments ==
  /\ sh.pc = "parse"
  /\ sh' = IF Text(sh.arg) \in {"-h", "--help"}
           THEN [sh EXCEPT !.pc = "exited", !.exit = 0, !.out = Append(@, "Usage"),
                           !.BATCH_CONFIG = sh.arg]
           ELSE [sh EXCEPT !.pc = "validate",
                           !.BATCH_CONFIG = IF Text(sh.arg) = "" THEN <<DEFAULT_BATCH>>
                                            ELSE sh.arg]
  /\ UNCHANGED <<endpointsFile, endpoints, testSuites, merged, built, esh, et, env, k6, ae, got>>

\* validate_batch_config $BATCH_CONFIG, then the details and the summary
validate_batch_config ==
  /\ sh.pc = "validate"
  /\ sh' = IF FirstWord(sh.BATCH_CONFIG)
                \in {"smoke", "getEndpointsLoad", "postEndpointsStress", "custom"}
           THEN [sh EXCEPT !.pc = "confirm", !.out = Append(@, "Test Configuration")]
           ELSE [sh EXCEPT !.pc = "exited", !.exit = 1,
                           !.out = @ \o <<"Invalid batch configuration",
                                          "Available batch configurations">>]
  /\ UNCHANGED <<endpointsFile, endpoints, testSuites, merged, built, esh, et, env, k6, ae, got>>

\* what `read -r response` can deliver; EOF makes read fail under set -e
Answers == {"y", "Y", "n", "", "yes", "EOF"}

\* a confirmation whose refusal ends the script as a failure
Confirm_DeclineFails(response) ==
  /\ sh.pc = "confirm"
  /\ sh' = IF response \in {"y", "Y"} THEN [sh EXCEPT !.pc = "run"]
           ELSE [sh EXCEPT !.pc = "exited", !.exit = 1,
                           !.out = Append(@, "Batch test cancelled by user")]
  /\ UNCHANGED <<endpointsFile, endpoints, testSuites, merged, built, env, k6, esh, et, ae, got>>

Confirm(response) ==
  /\ sh.pc = "confirm"
  /\ sh' = IF response = "EOF" THEN [sh EXCEPT !.pc = "exited", !.exit = 1]
           ELSE IF response \in {"y", "Y"} THEN [sh EXCEPT !.pc = "run"]
           ELSE [sh EXCEPT !.pc = "exited", !.exit = 0,
                           !.out = Append(@, "Batch test cancelled by user")]
  /\ UNCHANGED <<endpointsFile, endpoints, testSuites, merged, built, esh, et, env, k6, ae, got>>

\* run_batch_test up to the start of k6 run
run_batch_test ==
  /\ sh.pc = "run"
  /\ sh' = [sh EXCEPT !.pc = "wait", !.k6Runs = @ + 1,
                      !.out = Append(@, "Starting batch test")]
  /\ env' = [env EXCEPT !.BATCH_CONFIG = FirstWord(sh.BATCH_CONFIG)]
  /\ k6' = K6Launched
  /\ endpoints' = LoadEndpoints(endpointsFile)
  /\ testSuites' = ShippedTestSuites
  /\ UNCHANGED <<endpointsFile, merged, built, esh, et, ae, got>>

\* k6 run returned: set -e ends the script on a failure, else the success
\* message and the end of main
K6Returned ==
  /\ sh.pc = "wait"
  /\ k6.pc = "exited"
  /\ sh' = IF k6.exit # 0
           THEN [sh EXCEPT !.pc = "exited", !.exit = k6.exit]
           ELSE [sh EXCEPT !.pc = "exited", !.exit = 0,
                           !.out = Append(@, "Batch test completed successfully!")]
  /\ UNCHANGED <<endpointsFile, endpoints, testSuites, merged, built, esh, et, env, k6, ae, got>>

\* the terminal is back at the prompt
Finish ==
  /\ \/ sh.pc = "exited"
     \/ sh.pc = "off" /\ k6.pc = "exited"
  /\ sh' = ShOff
  /\ k6' = K6Off
  /\ env' = NoEnv
  /\ UNCHANGED <<endpointsFile, endpoints, testSuites, merged, built, esh, et, ae, got>>

(***************************************************************************)
(* add-endpoint.js: main.  The file exists in two versions, the plain one  *)
(* and the one with environment shortcuts.  What is typed (an argument or  *)
(* an answer) is a sequence of fragments: the endpoint key and the         *)
(* confirmation character by character, the path and the base URL by       *)
(* separators and runs of text.  The destructuring of process.argv leaves  *)
(* a missing element undefined, which the code only tests with `!`: it is  *)
(* the empty sequence here.                                                *)
(***************************************************************************)
LowercaseLetters ==
  {"a", "b", "c", "d", "e", "f", "g", "h", "i", "j", "k", "l", "m",
   "n", "o", "p", "q", "r", "s", "t", "u", "v", "w", "x", "y", "z"}

DecimalDigits == {"0", "1", "2", "3", "4", "5", "6", "7", "8", "9"}

RECURSIVE TrimEnd(_)
TrimEnd(str) ==
  IF str # <<>> /\ str[Len(str)] = " " THEN TrimEnd(SubSeq(str, 1, Len(str) - 1)) ELSE str

\* String.prototype.trim
Trim(str) == TrimEnd(SkipWhiteSpace(str))

\* the environment shortcuts of the second version
environments ==
  [dev |-> "https://dev-api.acexr.com/platform-services/v2",
   staging |-> "https://staging-api.acexr.com",
   prod |-> "https://api.acexr.com",
   local |-> "http://localhost:3000"]

DEFAULT_ENV == "dev"

\* generateEndpointConfig of the version with environment shortcuts, as
\* JSON.stringify writes its result: the base URL is environments[baseUrl]
\* when that is truthy, which an inherited member is too (a function, which
\* JSON leaves out, or Object.prototype, written {}), and the duration
\* thresholds are written p(95)<...
generateEndpointConfigEnv(endpointKey, method, path, baseUrl) ==
  LET plain == generateEndpointConfig(endpointKey, method, path, baseUrl)
      shortcut == PropertyOf(environments, baseUrl)
      isGet == toUpperCase(method) = "GET"
      resolved == [plain EXCEPT
                     !.baseUrl = IF shortcut.tag = "own" THEN shortcut.v
                                 ELSE IF shortcut.tag = "inherited" THEN EmptyObj
                                 ELSE baseUrl,
                     !.testConfig.loadTest.thresholds.http_req_duration =
                       <<IF isGet THEN "p(95)<100" ELSE "p(95)<300">>]
  IN IF shortcut.tag = "inherited" /\ baseUrl # "__proto__"
     THEN [k \in DOMAIN resolved \ {"baseUrl"} |-> resolved[k]]
     ELSE resolved

\* validateInput: the list of error messages
validateInput(version, endpointKey, method, path, baseUrl) ==
  (IF endpointKey = <<>> \/ Trim(endpointKey) = <<>>
   THEN <<"Endpoint key is required">>
   ELSE IF ~(\A i \in 1..Len(endpointKey) :
               endpointKey[i] \in LowercaseLetters \cup DecimalDigits \cup {"-"})
   THEN <<"Endpoint key should contain only lowercase letters, numbers, and hyphens">>
   ELSE <<>>)
  \o
  (IF method = <<>> \/ Trim(method) = <<>>
   THEN <<"HTTP method is required">>
   ELSE IF toUpperCase(Text(method)) \notin {"GET", "POST", "PUT", "PATCH", "DELETE"}
   THEN <<"HTTP method must be one of: GET, POST, PUT, PATCH, DELETE">>
   ELSE <<>>)
  \o
  (IF path = <<>> \/ Trim(path) = <<>>
   THEN <<"API path is required">>
   ELSE IF path[1] # "/"
   THEN <<"API path must start with /">>
   ELSE <<>>)
  \o
  (IF baseUrl = <<>> \/ Trim(baseUrl) = <<>>
   THEN <<"Base URL is required">>
   ELSE IF version = "plain" /\ baseUrl[1] \notin {"http://", "https://"}
   THEN <<"Base URL must start with http:// or https://">>
   ELSE <<>>)

\* interactiveMode: the four answers; the second version puts the default
\* environment in the place of a blank base URL
interactiveMode(version, typed) ==
  [typed EXCEPT !.baseUrl = IF version = "plain" THEN @ ELSE OrElse(Trim(@), <<DEFAULT_ENV>>)]

InteractivePrompts == <<"endpoint key", "method", "path", "base URL">>

\* process.argv.includes('--envs')
HasEnvsFlag(args) == \E i \in 1..Len(args) : Text(args[i]) = "--envs"

\* main up to the validation: how the inputs were obtained
ReadInputs(version, args, typed) ==
  IF version = "environments" /\ HasEnvsFlag(args)
  THEN [mode |-> "envs", inputs |-> EmptyObj, prompts |-> <<>>]
  ELSE IF Len(args) + 2 = 5
  THEN [mode |-> "command line",
        inputs |-> [endpointKey |-> args[1], method |-> args[2], path |-> args[3],
                    baseUrl |-> <<>>],
        prompts |-> <<>>]
  ELSE IF Len(args) + 2 = 2
  THEN [mode |-> "interactive", inputs |-> interactiveMode(version, typed),
        prompts |-> InteractivePrompts]
  ELSE [mode |-> "usage", inputs |-> EmptyObj, prompts |-> <<>>]

\* confirm.toLowerCase().startsWith('y')
Confirmed(confirm) == confirm # <<>> /\ confirm[1] \in {"y", "Y"}

\* main that updates the file before it looks at the confirmation
main_WritesBeforeConfirm(version, args, typed, confirm) ==
  /\ Idle
  /\ Len(endpointsFile) < Len(ShippedEndpointsFile) + MaxAdded
  /\ LET read == ReadInputs(version, args, typed)
         in == read.inputs
         run == [NoRun EXCEPT !.version = version, !.args = args, !.mode = read.mode,
                              !.inputs = read.inputs, !.prompts = read.prompts,
                              !.before = endpointsFile]
     IN IF read.mode = "envs"
        THEN /\ ae' = [run EXCEPT !.exit = 0, !.out = <<"Current Environment Configuration">>]
             /\ UNCHANGED endpointsFile
        ELSE IF read.mode = "usage"
        THEN /\ ae' = [run EXCEPT !.exit = 1, !.out = <<"Usage">>]
             /\ UNCHANGED endpointsFile
        ELSE LET errors == validateInput(version, in.endpointKey, in.method, in.path, in.baseUrl)
                 key == Text(in.endpointKey)
                 config == IF version = "plain"
                           THEN generateEndpointConfig(key, Text(in.method), in.path,
                                                       Text(in.baseUrl))
                           ELSE generateEndpointConfigEnv(key, Text(in.method), in.path,
                                                          Text(in.baseUrl))
                 asked == [run EXCEPT !.prompts = @ \o <<"confirm">>, !.answer = confirm,
                                      !.config = config,
                                      !.out = <<"Generated endpoint configuration">>]
             IN IF errors # <<>>
                THEN /\ ae' = [run EXCEPT !.errors = errors, !.exit = 1,
                                          !.out = <<"Validation errors", "Usage">>]
                     /\ UNCHANGED endpointsFile
                ELSE /\ endpointsFile' = updateEndpointsFile(endpointsFile, key, config)
                     /\ ae' = IF confirm = <<"EOF">> THEN [asked EXCEPT !.exit = 0, !.wrote = TRUE]
                              ELSE IF ~Confirmed(confirm)
                              THEN [asked EXCEPT !.exit = 0, !.wrote = TRUE,
                                                 !.out = Append(@, "Endpoint addition cancelled")]
                              ELSE [asked EXCEPT !.exit = 0, !.wrote = TRUE,
                                                 !.out = Append(@, "Endpoint added successfully!")]
  /\ UNCHANGED <<endpoints, testSuites, merged, built, env, sh, k6, esh, et, got>>

\* node scripts/add-endpoint.js args, with the answers typed at its
\* prompts; end of input at the confirmation leaves the promise pending
\* and node ends with 0
main(version, args, typed, confirm) ==
  /\ Idle
  /\ Len(endpointsFile) < Len(ShippedEndpointsFile) + MaxAdded
  /\ LET read == ReadInputs(version, args, typed)
         in == read.inputs
         run == [NoRun EXCEPT !.version = version, !.args = args, !.mode = read.mode,
                              !.inputs = read.inputs, !.prompts = read.prompts,
                              !.before = endpointsFile]
     IN IF read.mode = "envs"
        THEN /\ ae' = [run EXCEPT !.exit = 0, !.out = <<"Current Environment Configuration">>]
             /\ UNCHANGED endpointsFile
        ELSE IF read.mode = "usage"
        THEN /\ ae' = [run EXCEPT !.exit = 1, !.out = <<"Usage">>]
             /\ UNCHANGED endpointsFile
        ELSE LET errors == validateInput(version, in.endpointKey, in.method, in.path, in.baseUrl)
                 key == Text(in.endpointKey)
                 config == IF version = "plain"
                           THEN generateEndpointConfig(key, Text(in.method), in.path,
                                                       Text(in.baseUrl))
                           ELSE generateEndpointConfigEnv(key, Text(in.method), in.path,
                                                          Text(in.baseUrl))
                 asked == [run EXCEPT !.prompts = @ \o <<"confirm">>, !.answer = confirm,
                                      !.config = config,
                                      !.out = <<"Generated endpoint configuration">>]
             IN IF errors # <<>>
                THEN /\ ae' = [run EXCEPT !.errors = errors, !.exit = 1,
                                          !.out = <<"Validation errors", "Usage">>]
                     /\ UNCHANGED endpointsFile
                ELSE IF confirm = <<"EOF">>
                THEN /\ ae' = [asked EXCEPT !.exit = 0]
                     /\ UNCHANGED endpointsFile
                ELSE IF ~Confirmed(confirm)
                THEN /\ ae' = [asked EXCEPT !.exit = 0,
                                            !.out = Append(@, "Endpoint addition cancelled")]
                     /\ UNCHANGED endpointsFile
                ELSE /\ endpointsFile' = updateEndpointsFile(endpointsFile, key, config)
                     /\ ae' = [asked EXCEPT !.exit = 0, !.wrote = TRUE,
                                            !.out = Append(@, "Endpoint added successfully!")]
  /\ UNCHANGED <<endpoints, testSuites, merged, built, env, sh, k6, esh, et, got>>

(***************************************************************************)
(* config/endpoints.js: buildUrl.  A parameter map is an ordered object;   *)
(* a placeholder {k} is one fragment of the path.                          *)
(***************************************************************************)
RECURSIVE ReplaceFirst(_, _, _)
\* url.replace(pattern, value) with a string pattern: the first occurrence
\* of the pattern is replaced, later ones stay
ReplaceFirst(url, pattern, value) ==
  IF url = <<>> THEN <<>>
  ELSE IF Head(url) = pattern THEN <<value>> \o Tail(url)
  ELSE <<Head(url)>> \o ReplaceFirst(Tail(url), pattern, value)

RECURSIVE ReplaceParams(_, _, _)
\* Object.entries(params).forEach(([key, value]) => url = url.replace(...))
ReplaceParams(url, entries, i) ==
  IF i > Len(entries) THEN url
  ELSE ReplaceParams(ReplaceFirst(url, "{" \o entries[i].key \o "}", entries[i].value),
                     entries, i + 1)

\* a member inherited from Object.prototype has neither baseUrl nor path:
\* undefined + undefined is the number NaN, which has no replace method
buildUrl(endpointKey, params) ==
  LET endpoint == getEndpoint(endpointKey)
  IN IF ~Truthy(endpoint)
     THEN Throw("Error", "Endpoint '" \o endpointKey \o "' not found")
     ELSE IF endpoint.tag = "inherited"
     THEN IF params = <<>> THEN Return(<<"NaN">>)
          ELSE Throw("TypeError", "url.replace is not a function")
     ELSE Return(ReplaceParams(<<endpoint.v.baseUrl>> \o endpoint.v.path,
                               ObjectEntries(params), 1))

\* a process imports config/endpoints.js as it is on disk
ImportEndpoints ==
  /\ endpoints # LoadEndpoints(endpointsFile)
  /\ endpoints' = LoadEndpoints(endpointsFile)
  /\ UNCHANGED <<endpointsFile, testSuites, merged, built, env, sh, k6, esh, et, ae, got>>

\* one call buildUrl(key, params) on the loaded registry
BuildUrlCall(key, params) ==
  /\ built' = [endpointKey |-> key, params |-> params, result |-> buildUrl(key, params)]
  /\ UNCHANGED <<endpointsFile, endpoints, testSuites, merged, env, sh, k6, esh, et, ae, got>>

(***************************************************************************)
(* endpoint-test.js: module scope.                                         *)
(***************************************************************************)
endpointKey == OrElseStr(env.ENDPOINT, "users-me")

testSuite == OrElseStr(env.TEST_SUITE, "load")

\* the module body: the endpoint lookup, `options` and `metadata`, or the
\* exception that ends the evaluation.  The message of the lookup's throw
\* reads `endpoints`, which the module does not import.
EndpointTestModule ==
  LET endpoint == getEndpoint(endpointKey)
  IN IF ~Truthy(endpoint)
     THEN Throw("ReferenceError", "endpoints is not defined")
     ELSE LET options == mergeConfigs(FieldsOf(endpoint), testSuite)
          IN IF options.kind = "throw" THEN options
             ELSE Return([endpoint |-> endpoint,
                          options |-> options.value,
                          metadata |-> [endpoint |-> endpointKey,
                                        testSuite |-> testSuite]])

\* a fresh k6 process evaluating endpoint-test.js and its imports
EndpointTestLaunched == [EtOff EXCEPT !.pc = "init"]

\* k6 run scripts/endpoint-test.js typed at the terminal, environment e
StartEndpointTest(e) ==
  /\ Idle
  /\ env' = e
  /\ et' = EndpointTestLaunched
  /\ endpoints' = LoadEndpoints(endpointsFile)
  /\ testSuites' = ShippedTestSuites
  /\ UNCHANGED <<endpointsFile, merged, built, sh, k6, esh, ae, got>>

\* evaluation of the module body (the init stage)
EndpointTestInit ==
  /\ et.pc = "init"
  /\ IF EndpointTestModule.kind = "throw"
     THEN \E c \in FailureCodes :
            et' = [et EXCEPT !.pc = "exited", !.module = EndpointTestModule, !.exit = c]
     ELSE et' = [et EXCEPT !.pc = "setup", !.module = EndpointTestModule]
  /\ UNCHANGED <<endpointsFile, endpoints, testSuites, merged, built, env, sh, k6, esh, ae, got>>

\* setup(): logs the endpoint and returns the data of the iterations, which
\* reach the test function through JSON: a function is left out
EndpointTestSetup ==
  /\ et.pc = "setup"
  /\ LET endpoint == et.module.value.endpoint
     IN et' = [et EXCEPT
                 !.pc = "default",
                 !.data = IF endpoint.tag = "own"
                          THEN [endpoint |-> endpoint.v, testSuite |-> testSuite]
                          ELSE [testSuite |-> testSuite],
                 !.events =
                   IF "requiresAuth" \in DOMAIN FieldsOf(endpoint)
                      /\ FieldsOf(endpoint).requiresAuth
                   THEN <<[ev |-> "setup"],
                          [ev |-> "log", what |-> "This endpoint requires authentication"]>>
                   ELSE <<[ev |-> "setup"]>>]
  /\ UNCHANGED <<endpointsFile, endpoints, testSuites, merged, built, env, sh, k6, esh, ae, got>>

(***************************************************************************)
(* endpoint-test.js: the test function.                                    *)
(***************************************************************************)
EndpointResponses ==
  [status : {200, 201, 500}, duration : {50, 100, 900},
   headers : SUBSET {"Content-Type", "Location"}]

\* checks that stop at the first one that fails
EndpointChecks_ShortCircuit(ep, r) ==
  LET status == r.status = ep.validation.expectedStatus
      time == status /\ r.duration < ep.validation.responseTime
      headers == time /\ Every(ep.validation.requiredHeaders, r.headers)
      three == [status |-> status, time |-> time, headers |-> headers]
  IN IF ep.method = "POST" /\ ep.validation.expectedStatus = 201
     THEN three @@ ("location" :> (headers /\ "Location" \in r.headers))
     ELSE three

\* the checks object and what check(response, checks) records for each
EndpointChecks(ep, r) ==
  LET three == [status |-> (r.status = ep.validation.expectedStatus),
                time |-> (r.duration < ep.validation.responseTime),
                headers |-> Every(ep.validation.requiredHeaders, r.headers)]
  IN IF ep.method = "POST" /\ ep.validation.expectedStatus = 201
     THEN three @@ ("location" :> ("Location" \in r.headers))
     ELSE three

\* the test function with the token sent whenever it is set
EndpointTestFunction_AlwaysSendsToken(data, r) ==
  LET url == buildUrl(endpointKey, <<>>)
      ep == IF "endpoint" \in DOMAIN data THEN data.endpoint ELSE EmptyObj
      authToken == env.AUTH_TOKEN
      headers ==
        IF authToken # ""
        THEN ("Content-Type" :> "application/json") @@ ("User-Agent" :> "k6-performance-test")
             @@ ("Authorization" :> ("Bearer " \o authToken))
        ELSE ("Content-Type" :> "application/json") @@ ("User-Agent" :> "k6-performance-test")
      authWarn == IF ep.requiresAuth /\ authToken = ""
                  THEN <<[ev |-> "warn", what |-> "AUTH_TOKEN not provided",
                          key |-> endpointKey]>>
                  ELSE <<>>
      request == [ev |-> "request", key |-> endpointKey, method |-> ep.method,
                  url |-> url.value, headers |-> headers,
                  body |-> IF ep.method \in {"POST", "PUT", "PATCH"}
                           THEN "generateTestData" ELSE "none"]
  IN IF url.kind = "throw"
     THEN <<[ev |-> "error", key |-> endpointKey, error |-> url.error,
             message |-> url.message]>>
     ELSE IF "endpoint" \notin DOMAIN data
     THEN <<[ev |-> "error", key |-> endpointKey, error |-> "TypeError",
             message |-> "Cannot read properties of undefined (reading 'requiresAuth')"]>>
     ELSE IF ep.method \notin Methods
     THEN authWarn
          \o <<[ev |-> "error", key |-> endpointKey, error |-> "Error",
                message |-> "Unsupported HTTP method: " \o ep.method]>>
     ELSE authWarn
          \o << request,
                [ev |-> "check", key |-> endpointKey, response |-> r,
                 checks |-> EndpointChecks(ep, r)],
                [ev |-> "sleep", key |-> endpointKey, seconds |-> Num(1)] >>

\* one call of the test function: the events it produces, in order; an
\* exception ends the call
EndpointTestFunction(data, r) ==
  LET url == buildUrl(endpointKey, <<>>)
      ep == IF "endpoint" \in DOMAIN data THEN data.endpoint ELSE EmptyObj
      authToken == env.AUTH_TOKEN
      headers ==
        IF ep.requiresAuth /\ authToken # ""
        THEN ("Content-Type" :> "application/json") @@ ("User-Agent" :> "k6-performance-test")
             @@ ("Authorization" :> ("Bearer " \o authToken))
        ELSE ("Content-Type" :> "application/json") @@ ("User-Agent" :> "k6-performance-test")
      authWarn == IF ep.requiresAuth /\ authToken = ""
                  THEN <<[ev |-> "warn", what |-> "AUTH_TOKEN not provided",
                          key |-> endpointKey]>>
                  ELSE <<>>
      request == [ev |-> "request", key |-> endpointKey, method |-> ep.method,
                  url |-> url.value, headers |-> headers,
                  body |-> IF ep.method \in {"POST", "PUT", "PATCH"}
                           THEN "generateTestData" ELSE "none"]
  IN IF url.kind = "throw"
     THEN <<[ev |-> "error", key |-> endpointKey, error |-> url.error,
             message |-> url.message]>>
     ELSE IF "endpoint" \notin DOMAIN data
     THEN <<[ev |-> "error", key |-> endpointKey, error |-> "TypeError",
             message |-> "Cannot read properties of undefined (reading 'requiresAuth')"]>>
     ELSE IF ep.method \notin Methods
     THEN authWarn
          \o <<[ev |-> "error", key |-> endpointKey, error |-> "Error",
                message |-> "Unsupported HTTP method: " \o ep.method]>>
     ELSE authWarn
          \o << request,
                [ev |-> "check", key |-> endpointKey, response |-> r,
                 checks |-> EndpointChecks(ep, r)],
                [ev |-> "sleep", key |-> endpointKey, seconds |-> Num(1)] >>

\* k6 calls the test function once more; et.events holds what the call did
EndpointTestDefault ==
  /\ et.pc = "default"
  /\ et.iteration < MaxIterations
  /\ \E r \in EndpointResponses :
       et' = [et EXCEPT !.events = EndpointTestFunction(et.data, r),
                        !.iteration = @ + 1]
  /\ UNCHANGED <<endpointsFile, endpoints, testSuites, merged, built, env, sh, k6, esh, ae, got>>

\* the run is over: teardown(), then k6 exits with 0 or with a failure code
EndpointTestTeardown ==
  /\ et.pc = "default"
  /\ et.iteration >= 1
  /\ \E c \in {0} \cup FailureCodes :
       et' = [et EXCEPT !.pc = "exited", !.exit = c]
  /\ UNCHANGED <<endpointsFile, endpoints, testSuites, merged, built, env, sh, k6, esh, ae, got>>

(***************************************************************************)
(* scripts/run-endpoint-test.sh.  The positional arguments are a sequence  *)
(* of at most two strings.                                                 *)
(***************************************************************************)
DEFAULT_ENDPOINT == "users-me"

DEFAULT_TEST_SUITE == "load"

\* ${n:-default}: the default when the argument is unset or empty
ArgOr(args, n, default) ==
  IF n <= Len(args) /\ Text(args[n]) # "" THEN args[n] ELSE <<default>>

\* ./run-endpoint-test.sh args typed at the terminal, environment e
StartEndpointShell(args, installed, e) ==
  /\ Idle
  /\ env' = e
  /\ esh' = [EshOff EXCEPT !.pc = "check_k6", !.args = args, !.installed = installed]
  /\ UNCHANGED <<endpointsFile, endpoints, testSuites, merged, built, sh, k6, et, ae, got>>

endpoint_check_k6 ==
  /\ esh.pc = "check_k6"
  /\ esh' = IF esh.installed
            THEN [esh EXCEPT !.pc = "parse", !.out = Append(@, "Found k6")]
            ELSE [esh EXCEPT !.pc = "exited", !.exit = 1,
                             !.out = Append(@, "k6 is not installed")]
  /\ UNCHANGED <<endpointsFile, endpoints, testSuites, merged, built, env, sh, k6, et, ae, got>>

\* ENDPOINT=${1:-...}, TEST_SUITE=${2:-...} and the help test of main
EndpointParseArguments ==
  /\ esh.pc = "parse"
  /\ LET parsed == [esh EXCEPT !.ENDPOINT = ArgOr(esh.args, 1, DEFAULT_ENDPOINT),
                               !.TEST_SUITE = ArgOr(esh.args, 2, DEFAULT_TEST_SUITE)]
     IN esh' = IF Len(esh.args) >= 1 /\ Text(esh.args[1]) \in {"-h", "--help"}
               THEN [parsed EXCEPT !.pc = "exited", !.exit = 0, !.out = Append(@, "Usage")]
               ELSE [parsed EXCEPT !.pc = "validate_endpoint"]
  /\ UNCHANGED <<endpointsFile, endpoints, testSuites, merged, built, env, sh, k6, et, ae, got>>

\* validate_endpoint $ENDPOINT
validate_endpoint ==
  /\ esh.pc = "validate_endpoint"
  /\ esh' = IF FirstWord(esh.ENDPOINT)
                 \in {"users-me", "client-configs", "health-check", "create-user",
                      "update-user"}
            THEN [esh EXCEPT !.pc = "validate_test_suite"]
            ELSE [esh EXCEPT !.pc = "exited", !.exit = 1,
                             !.out = @ \o <<"Invalid endpoint", "Available endpoints">>]
  /\ UNCHANGED <<endpointsFile, endpoints, testSuites, merged, built, env, sh, k6, et, ae, got>>

\* validate_test_suite $TEST_SUITE
validate_test_suite ==
  /\ esh.pc = "validate_test_suite"
  /\ esh' = IF FirstWord(esh.TEST_SUITE)
                 \in {"smoke", "load", "stress", "spike", "endurance", "soak"}
            THEN [esh EXCEPT !.pc = "check_auth"]
            ELSE [esh EXCEPT !.pc = "exited", !.exit = 1,
                             !.out = @ \o <<"Invalid test suite", "Available test suites">>]
  /\ UNCHANGED <<endpointsFile, endpoints, testSuites, merged, built, env, sh, k6, et, ae, got>>

\* check_auth_requirements $ENDPOINT, the summary, and the test that
\* decides whether main asks for a confirmation
check_auth_requirements ==
  /\ esh.pc = "check_auth"
  /\ LET note ==
           IF FirstWord(esh.ENDPOINT) \in {"users-me", "create-user", "update-user"}
           THEN IF env.AUTH_TOKEN = ""
                THEN <<"AUTH_TOKEN is not set", "Continuing without authentication">>
                ELSE <<"Authentication token found">>
           ELSE <<"No authentication required for this endpoint">>
     IN esh' = [esh EXCEPT
                  !.pc = IF Text(esh.TEST_SUITE) \in {"endurance", "soak"}
                         THEN "confirm" ELSE "run",
                  !.out = @ \o note \o <<"Test Configuration">>]
  /\ UNCHANGED <<endpointsFile, endpoints, testSuites, merged, built, env, sh, k6, et, ae, got>>

\* read -r response of the long-running suites
EndpointConfirm(response) ==
  /\ esh.pc = "confirm"
  /\ esh' = IF response = "EOF" THEN [esh EXCEPT !.pc = "exited", !.exit = 1]
            ELSE IF response \in {"y", "Y"} THEN [esh EXCEPT !.pc = "run"]
            ELSE [esh EXCEPT !.pc = "exited", !.exit = 0,
                             !.out = Append(@, "Test cancelled by user")]
  /\ UNCHANGED <<endpointsFile, endpoints, testSuites, merged, built, env, sh, k6, et, ae, got>>

\* run_test $ENDPOINT $TEST_SUITE up to the start of k6 run: the function's
\* $1 and $2 are the first two words of the two expansions
run_test ==
  /\ esh.pc = "run"
  /\ LET words == Words(esh.ENDPOINT) \o Words(esh.TEST_SUITE)
     IN env' = [env EXCEPT !.ENDPOINT = words[1], !.TEST_SUITE = words[2]]
  /\ esh' = [esh EXCEPT !.pc = "wait", !.k6Runs = @ + 1,
                        !.out = Append(@, "Starting test")]
  /\ et' = EndpointTestLaunched
  /\ endpoints' = LoadEndpoints(endpointsFile)
  /\ testSuites' = ShippedTestSuites
  /\ UNCHANGED <<endpointsFile, merged, built, sh, k6, ae, got>>

\* k6 run returned, in a script without set -e: the success message and
\* the end of main whatever k6 returned
EndpointK6Returned_WithoutErrexit ==
  /\ esh.pc = "wait"
  /\ et.pc = "exited"
  /\ esh' = [esh EXCEPT !.pc = "exited", !.exit = 0,
                        !.out = Append(@, "Test completed successfully!")]
  /\ UNCHANGED <<endpointsFile, endpoints, testSuites, merged, built, env, sh, k6, et, ae, got>>

\* k6 run returned: set -e ends the script on a failure, else the success
\* message and the end of main
EndpointK6Returned ==
  /\ esh.pc = "wait"
  /\ et.pc = "exited"
  /\ esh' = IF et.exit # 0
            THEN [esh EXCEPT !.pc = "exited", !.exit = et.exit]
            ELSE [esh EXCEPT !.pc = "exited", !.exit = 0,
                             !.out = Append(@, "Test completed successfully!")]
  /\ UNCHANGED <<endpointsFile, endpoints, testSuites, merged, built, env, sh, k6, et, ae, got>>

\* the terminal is back at the prompt
EndpointFinish ==
  /\ \/ esh.pc = "exited"
     \/ esh.pc = "off" /\ et.pc = "exited"
  /\ esh' = EshOff
  /\ et' = EtOff
  /\ env' = NoEnv
  /\ UNCHANGED <<endpointsFile, endpoints, testSuites, merged, built, sh, k6, ae, got>>

(***************************************************************************)
(* scripts/run-with-dashboard.sh and scripts/run-with-influxdb.sh: the     *)
(* endpoint validators, TRUE for return 0 and FALSE for exit 1.            *)
(***************************************************************************)
\* validate_endpoint $ENDPOINT of run-with-dashboard.sh
dashboard_validate_endpoint(ENDPOINT) ==
  FirstWord(ENDPOINT)
    \in {"users-me", "client-configs", "health-check", "create-user", "update-user"}

\* validate_endpoint $ENDPOINT of run-with-influxdb.sh
influxdb_validate_endpoint(ENDPOINT) ==
  FirstWord(ENDPOINT)
    \in {"users-me", "client-configs", "health-check", "create-user", "update-user"}

(***************************************************************************)
(* Inputs.                                                                 *)
(***************************************************************************)
\* all sequences over alphabet of length at most n
SeqsUpTo(alphabet, n) == UNION { [1..m -> alphabet] : m \in 0..n }

EndpointsStrings == SeqsUpTo({"users-me", "0", ","}, MaxEnvKeys)

NumberStrings == SeqsUpTo({"0", "7", "x"}, MaxEnvLen)

BatchConfigValues ==
  {"", "smoke", "getEndpointsLoad", "postEndpointsStress", "custom",
   "unknown-batch", "constructor"}

Env(cfg, eps, suite, par, maxc, delay, tok) ==
  [BATCH_CONFIG |-> cfg, BATCH_ENDPOINTS |-> eps, BATCH_TEST_SUITE |-> suite,
   BATCH_PARALLEL |-> par, BATCH_MAX_CONCURRENT |-> maxc, BATCH_DELAY |-> delay,
   AUTH_TOKEN |-> tok, ENDPOINT |-> "", TEST_SUITE |-> ""]

\* environments in which only BATCH_CONFIG and AUTH_TOKEN are set
PlainEnvs ==
  { Env(cfg, <<>>, "", "", <<>>, <<>>, tok) :
      cfg \in BatchConfigValues, tok \in {"", "token"} }

\* the two numbers of the custom batch: one of them is left unset
NumberPairs ==
  { <<maxc, <<>>>> : maxc \in NumberStrings } \cup { <<<<>>, delay>> : delay \in NumberStrings }

\* environments of the custom batch in the batch resolution
CustomPlanEnvs ==
  { Env("custom", eps, suite, par, n[1], n[2], "") :
      eps \in EndpointsStrings, suite \in {"", "stress", "unknown"},
      par \in {"", "true", "TRUE"}, n \in NumberPairs }
  \cup { Env("custom", <<>>, suite, "", <<>>, <<>>, "") :
           suite \in {"smoke", "load", "stress", "spike", "endurance", "soak"} }

\* environments of the custom batch in the runs
RunEndpointsStrings ==
  { <<>>, <<"users-me">>, <<"0">>, <<"users-me", ",", "0">>, <<"0", ",", "users-me">>,
    <<"length", ",", "forEach">>, <<",">> }

CustomRunEnvs ==
  { Env("custom", eps, suite, par, <<>>, delay, "token") :
      eps \in RunEndpointsStrings, suite \in {"", "unknown"},
      par \in {"", "true"}, delay \in {<<>>, <<"7">>} }

\* what is typed with ./run-batch-test.sh: argument, k6 on the PATH or
\* not, environment
ShellStarts ==
  { <<arg, installed, Env("", <<>>, "", "", <<>>, <<>>, tok)>> :
      arg \in { <<>>, <<"smoke">>, <<"getEndpointsLoad">>, <<"postEndpointsStress">>,
                <<"custom">>, <<"unknown-batch">>, <<"constructor">>, <<"-h">>,
                <<"--help">>, <<" ">>, <<"smoke", " ", "unknown-batch">> },
      installed \in BOOLEAN, tok \in {"", "token"} }
  \cup { <<<<"custom">>, TRUE, Env("", <<"0", ",", "users-me">>, suite, par, <<>>, <<>>, "")>> :
           suite \in {"stress", "unknown"}, par \in {"", "true"} }

AddedEndpoints ==
  { <<"0", "GET", <<"/", "api", "/", "items">>, "https://api.example.com">>,
      <<"get-orders", "post",
      <<"/", "api", "/", "orders", "/", "{id}", "/", "items", "/", "{id}">>,
      "https://api.example.com">>,
    <<"users-me", "PUT", <<"/", "api", "/", "users", "/">>, "http://localhost">> }

AddSome == \E a \in AddedEndpoints : AddEndpoint(a[1], a[2], a[3], a[4])

\* environments of endpoint-test.js
EndpointEnvs ==
  { [NoEnv EXCEPT !.ENDPOINT = ep, !.TEST_SUITE = suite, !.AUTH_TOKEN = tok] :
      ep \in {"", "client-configs", "health-check", "create-user", "update-user",
              "get-orders", "unknown-endpoint", "constructor"},
      suite \in {"", "smoke", "unknown-suite"},
      tok \in {"", "token"} }

\* what is typed with ./run-endpoint-test.sh: arguments, k6 on the PATH or
\* not, environment
EndpointShellStarts ==
  { <<args, installed, [NoEnv EXCEPT !.AUTH_TOKEN = tok]>> :
      args \in { <<>>, << <<"health-check">> >>, << <<"create-user">>, <<"smoke">> >>,
                 << <<"users-me">>, <<"soak">> >>, << <<"auth/signin">> >>,
                 << <<"get-orders">> >>,
                 << <<"unknown-endpoint">>, <<"smoke">> >>,
                 << <<"health-check">>, <<"unknown-suite">> >>,
                 << <<"-h">> >>, << <<"--help">>, <<"smoke">> >>,
                 << <<"health-check">>, <<"--help">> >>,
                 << <<"health-check", " ", "unknown-suite">> >>, << <<" ">> >> },
      installed \in BOOLEAN, tok \in {"", "token"} }

\* what is typed for add-endpoint.js
TypedKeys ==
  { <<"a", "-", "1">>, <<"0">>,
    <<"h", "e", "a", "l", "t", "h", "-", "c", "h", "e", "c", "k">>,
    <<"u", "s", "e", "r", "s", "-", "m", "e">>,
    <<"A">>, <<"a", "_", "b">>, <<" ">>, <<>> }

TypedMethods == { <<"GET">>, <<"post">>, <<"FETCH">>, <<>> }

TypedPaths ==
  { <<"/", "api", "/", "items">>, <<"/", "api", "/", "users", "/", "{id}">>,
    <<"api", "/", "items">>, <<>> }

TypedBaseUrls ==
  { <<"https://", "api.example.com">>, <<"dev">>, <<"ftp://", "host">>, <<" ">>, <<>> }

TypedInput(key, method, path, baseUrl) ==
  [endpointKey |-> key, method |-> method, path |-> path, baseUrl |-> baseUrl]

\* the four answers of the interactive mode: every key with two methods,
\* one valid set of answers with each other answer varied in turn, and a
\* key registered already with an environment shortcut
TypedInputs ==
  { TypedInput(key, method, <<"/", "api", "/", "items">>, <<"https://", "api.example.com">>) :
      key \in TypedKeys, method \in {<<"GET">>, <<"post">>} }
  \cup { TypedInput(<<"a", "-", "1">>, method, <<"/", "api", "/", "items">>,
                    <<"https://", "api.example.com">>) : method \in TypedMethods }
  \cup { TypedInput(<<"a", "-", "1">>, <<"GET">>, path, <<"https://", "api.example.com">>) :
           path \in TypedPaths }
  \cup { TypedInput(<<"a", "-", "1">>, <<"GET">>, <<"/", "api", "/", "items">>, baseUrl) :
           baseUrl \in TypedBaseUrls }
  \cup { TypedInput(<<"h", "e", "a", "l", "t", "h", "-", "c", "h", "e", "c", "k">>, <<"post">>,
                    <<"/", "api", "/", "users", "/", "{id}">>, <<"dev">>) }

\* nothing is typed at the four prompts
NothingTyped == TypedInput(<<>>, <<>>, <<>>, <<>>)

\* the arguments after `node scripts/add-endpoint.js`
ArgumentLists ==
  {    << <<"a", "-", "1">>, <<"GET">>, <<"/", "api", "/", "items">>,
       <<"https://", "api.example.com">> >>,
    << <<"a", "-", "1">>, <<"post">>, <<"/", "api", "/", "items">>, <<"dev">> >>,
    << <<"a", "-", "1">>, <<"GET">>, <<"/", "api", "/", "items">> >>,
    << <<"a", "-", "1">> >>,
    << <<"--envs">> >>,
    << <<"a", "-", "1">>, <<"GET">>, <<"/", "api", "/", "items">>, <<"dev">>, <<"--envs">> >> }

ConfirmAnswers == { <<"y">>, <<"Y", "e", "s">>, <<"n">>, <<>>, <<"EOF">> }

\* parameter maps of buildUrl, as the object literals a caller writes
ParamEntries ==
  { [key |-> "id", value |-> "123"], [key |-> "id", value |-> "7"],
    [key |-> "org", value |-> "acme"] }

ParamMaps ==
  { EvalLiteral(lit, 1, <<>>) : lit \in UNION { [1..n -> ParamEntries] : n \in 0..2 } }

BuildKeys ==
  {"users-me", "update-user", "auth/signin", "get-orders", "0", "unknown-endpoint",
   "constructor", ""}

\* calls and runs for the registries' frame: the getters, mergeConfigs and
\* buildUrl, each with an argument that is registered and one that is not
GetterCalls ==
  { <<"getEndpoint", "users-me">>, <<"getEndpoint", "unknown-endpoint">>,
    <<"getAllEndpoints", "">>, <<"getEndpointsByMethod", "post">>,
    <<"getAuthenticatedEndpoints", "">> }

FrameMergeEndpoints == { endpoints[1].value }

FrameSuiteNames == {"load", "unknown-suite"}

FrameBuildKeys == {"users-me", "unknown-endpoint"}

FrameBatchEnvs == { Env("smoke", <<>>, "", "", <<>>, <<>>, "token") }

FrameEndpointEnvs ==
  { [NoEnv EXCEPT !.ENDPOINT = "create-user", !.AUTH_TOKEN = "token"],
    [NoEnv EXCEPT !.ENDPOINT = "unknown-endpoint"] }

(***************************************************************************)
(* Specifications.                                                         *)
(***************************************************************************)
Merge == \E e \in MergeEndpoints, s \in MergeSuiteNames : MergeCall(e, s)

NextMerge == Merge

\* calls of mergeConfigs
SpecMerge == Init /\ [][NextMerge]_vars

PlanStart == \E e \in PlainEnvs : StartK6(e)

\* the custom batch reads the environment and not the registry: its
\* environments are drawn with the registry as shipped
PlanStartCustom ==
  /\ Idle
  /\ endpointsFile = ShippedEndpointsFile
  /\ \E e \in CustomPlanEnvs : StartK6(e)

NextPlan == AddSome \/ PlanStart \/ PlanStartCustom \/ K6Init

\* the batch resolution of batch-test-runner.js
SpecPlan == Init /\ [][NextPlan]_vars

RunShell == \E st \in ShellStarts : StartShell(st[1], st[2], st[3])

RunK6 == \E e \in PlainEnvs \cup CustomRunEnvs : StartK6(e)

Answer == \E response \in Answers : Confirm(response)

RunEndpointShell == \E st \in EndpointShellStarts : StartEndpointShell(st[1], st[2], st[3])

RunEndpointTest == \E e \in EndpointEnvs : StartEndpointTest(e)

EndpointAnswer == \E response \in Answers : EndpointConfirm(response)

Next ==
  \/ AddSome
  \/ RunShell
  \/ check_k6
  \/ ParseArguments
  \/ validate_batch_config
  \/ Answer
  \/ run_batch_test
  \/ K6Returned
  \/ RunK6
  \/ K6Init
  \/ K6Setup
  \/ K6Default
  \/ K6NextIteration
  \/ K6Teardown
  \/ Finish
  \/ RunEndpointShell
  \/ endpoint_check_k6
  \/ EndpointParseArguments
  \/ validate_endpoint
  \/ validate_test_suite
  \/ check_auth_requirements
  \/ EndpointAnswer
  \/ run_test
  \/ EndpointK6Returned
  \/ RunEndpointTest
  \/ EndpointTestInit
  \/ EndpointTestSetup
  \/ EndpointTestDefault
  \/ EndpointTestTeardown
  \/ EndpointFinish

\* the runs: the shell wrappers and the two test scripts under k6
Spec == Init /\ [][Next]_vars

RunInteractive ==
  \E version \in {"plain", "environments"}, typed \in TypedInputs, confirm \in ConfirmAnswers :
    main(version, <<>>, typed, confirm)

RunWithArguments ==
  \E version \in {"plain", "environments"}, args \in ArgumentLists, confirm \in ConfirmAnswers :
    main(version, args, NothingTyped, confirm)

NextAdd == RunInteractive \/ RunWithArguments

\* runs of add-endpoint.js
SpecAdd == Init /\ [][NextAdd]_vars

BuildUrl == \E key \in BuildKeys, params \in ParamMaps : BuildUrlCall(key, params)

NextUrl == AddSome \/ ImportEndpoints \/ BuildUrl

\* calls of buildUrl
SpecUrl == Init /\ [][NextUrl]_vars

FrameAdd ==
  AddEndpoint("get-orders", "post", <<"/", "api", "/", "orders">>, "https://api.example.com")

\* the helpers are called between two runs, on the registries the last
\* process loaded
FrameGet == Idle /\ \E call \in GetterCalls : GetterCall(call[1], call[2])

FrameMerge ==
  Idle /\ \E e \in FrameMergeEndpoints, s \in FrameSuiteNames : MergeCall(e, s)

FrameBuildUrl == Idle /\ \E key \in FrameBuildKeys : BuildUrlCall(key, EmptyObj)

\* each helper has been called, the last calls having returned
HelpersCalled ==
  /\ got.fn = "getAuthenticatedEndpoints"
  /\ merged.result.kind = "return"
  /\ built.result.kind = "return"

\* a run starts once the helpers have been called
FrameRunK6 == HelpersCalled /\ \E e \in FrameBatchEnvs : StartK6(e)

FrameRunEndpointTest == HelpersCalled /\ \E e \in FrameEndpointEnvs : StartEndpointTest(e)

NextFrame ==
  \/ FrameAdd
  \/ ImportEndpoints
  \/ FrameGet
  \/ FrameMerge
  \/ FrameBuildUrl
  \/ FrameRunK6
  \/ K6Init
  \/ K6Setup
  \/ K6Default
  \/ K6NextIteration
  \/ K6Teardown
  \/ Finish
  \/ FrameRunEndpointTest
  \/ EndpointTestInit
  \/ EndpointTestSetup
  \/ EndpointTestDefault
  \/ EndpointTestTeardown
  \/ EndpointFinish

\* calls of the helpers of the two registries between and during runs of
\* the two test scripts
SpecFrame == Init /\ [][NextFrame]_vars

(***************************************************************************)
(* Properties of mergeConfigs (SpecMerge).                                 *)
(***************************************************************************)
RegisteredSuites == {"smoke", "load", "stress", "spike", "endurance", "soak"}

\* the override of the call's endpoint for the call's suite name: the
\* entry of testConfig under that name, the empty object without one
CallOverride ==
  IF "testConfig" \in DOMAIN merged.endpoint
     /\ merged.testSuiteName \in DOMAIN merged.endpoint.testConfig
  THEN merged.endpoint.testConfig[merged.testSuiteName]
  ELSE EmptyObj

CallOverrideThresholds ==
  IF "thresholds" \in DOMAIN CallOverride THEN CallOverride.thresholds ELSE EmptyObj

CallSuiteConfig == ShippedTestSuites[merged.testSuiteName].config

\* C1: for a registered suite name mergeConfigs returns a config whose
\* thresholds keys are exactly the union of the suite's and the override's
\* threshold keys; a key of the override carries the override's value, any
\* other key the suite's value.
C1_ThresholdsAreUnion ==
  merged.testSuiteName \in RegisteredSuites =>
    /\ merged.result.kind = "return"
    /\ LET t == merged.result.value.thresholds
           suiteT == CallSuiteConfig.thresholds
       IN /\ DOMAIN t = DOMAIN suiteT \cup DOMAIN CallOverrideThresholds
          /\ \A k \in DOMAIN t :
               t[k] = IF k \in DOMAIN CallOverrideThresholds
                      THEN CallOverrideThresholds[k] ELSE suiteT[k]

\* a merge whose override shares http_req_duration with the suite, adds
\* checks, and leaves http_req_failed to the suite
C1_Witness ==
  /\ merged.testSuiteName = "load"
  /\ merged.result.kind = "return"
  /\ DOMAIN CallOverrideThresholds = {"http_req_duration", "checks"}
  /\ merged.result.value.thresholds.http_req_duration = <<"p(95)<9">>
  /\ merged.result.value.thresholds.http_req_failed = <<"rate<0.01">>

\* C2: every field of the result other than thresholds is the override's
\* value where the override defines the field and the suite's value
\* otherwise, whole values being replaced; without an override entry the
\* result equals the suite's config.
C2_FieldsShallowOverride ==
  merged.testSuiteName \in RegisteredSuites =>
    /\ merged.result.kind = "return"
    /\ LET res == merged.result.value
           fields == (DOMAIN CallSuiteConfig \cup DOMAIN CallOverride) \ {"thresholds"}
       IN /\ DOMAIN res \ {"thresholds"} = fields
          /\ \A f \in fields :
               res[f] = IF f \in DOMAIN CallOverride
                        THEN CallOverride[f] ELSE CallSuiteConfig[f]
          /\ CallOverride = EmptyObj => res = CallSuiteConfig

\* a merge whose override replaces the seven stages of the stress suite by
\* its single stage
C2_Witness ==
  /\ merged.testSuiteName = "stress"
  /\ merged.result.kind = "return"
  /\ "stages" \in DOMAIN CallOverride
  /\ Len(CallSuiteConfig.stages) = 7
  /\ merged.result.value.stages = << [duration |-> "1s", target |-> 3] >>

\* C3: for every name that is not a registered suite name, names of the
\* object prototype included, mergeConfigs fails with the error
\* "Test suite '<name>' not found" and returns no config.
C3_UnknownSuiteError ==
  (merged.result.kind # "none" /\ merged.testSuiteName \notin RegisteredSuites) =>
    merged.result
      = Throw("Error", "Test suite '" \o merged.testSuiteName \o "' not found")

\* the test configuration an endpoint of the registry defines for a suite
DefinedTestConfig(endpoint, suite) ==
  IF suite = "load" THEN endpoint.testConfig.loadTest ELSE endpoint.testConfig.smokeTest

\* C4: for an endpoint of the shipped registry, mergeConfigs with 'load'
\* (or 'smoke') returns the vus, duration and thresholds of the endpoint's
\* load-test (smoke-test) configuration, and the suite's defaults only for
\* what the endpoint does not define.
C4_EndpointConfigUsed ==
  ( /\ merged.result.kind = "return"
    /\ merged.testSuiteName \in {"load", "smoke"}
    /\ \E i \in 1..Len(ShippedEndpointsFile) :
         ShippedEndpointsFile[i].value = merged.endpoint ) =>
    LET own == DefinedTestConfig(merged.endpoint, merged.testSuiteName)
        res == merged.result.value
    IN /\ \A f \in DOMAIN own \ {"thresholds"} : res[f] = own[f]
       /\ "thresholds" \in DOMAIN own =>
            \A k \in DOMAIN own.thresholds : res.thresholds[k] = own.thresholds[k]

(***************************************************************************)
(* Properties of the batch resolution (SpecPlan).                          *)
(***************************************************************************)
\* the module body has been evaluated for the batch named name
Resolved(name) == k6.pc \notin {"off", "init"} /\ batchKey = name

RegisteredKeys == { endpoints[i].key : i \in 1..Len(endpoints) }

KeysOfMethod(method) ==
  { endpoints[i].key : i \in { j \in 1..Len(endpoints) : endpoints[j].value.method = method } }

NoDuplicates(keys) ==
  \A i, j \in 1..Len(keys) : i # j => keys[i] # keys[j]

Elements(keys) == { keys[i] : i \in 1..Len(keys) }

\* C6: the smoke batch resolves to all registered endpoint keys, each once
\* and in the registry's iteration order (which holds every key of the
\* file), with suite smoke, sequential mode and a delay of 5 seconds.
C6_SmokeBatch ==
  Resolved("smoke") =>
    /\ k6.batch.tag = "own"
    /\ Len(k6.batch.v.endpoints) = Len(endpoints)
    /\ \A i \in 1..Len(endpoints) : k6.batch.v.endpoints[i] = endpoints[i].key
    /\ NoDuplicates(k6.batch.v.endpoints)
    /\ Elements(k6.batch.v.endpoints)
         = { endpointsFile[i].key : i \in 1..Len(endpointsFile) }
    /\ k6.batch.v.testSuite = "smoke"
    /\ k6.batch.v.parallel = FALSE
    /\ k6.batch.v.delayBetweenEndpoints = Num(5)

\* the smoke batch resolved on a registry to which an endpoint whose key
\* was registered already has been added
C6_Witness ==
  /\ Resolved("smoke")
  /\ Len(endpointsFile) > Len(k6.batch.v.endpoints)
  /\ Len(k6.batch.v.endpoints) = 6

\* C7: the getEndpointsLoad batch resolves to exactly the registered keys
\* whose method is GET, with suite load, parallel mode and maxConcurrent 3.
C7_GetEndpointsLoadBatch ==
  Resolved("getEndpointsLoad") =>
    /\ k6.batch.tag = "own"
    /\ Elements(k6.batch.v.endpoints) = KeysOfMethod("GET")
    /\ NoDuplicates(k6.batch.v.endpoints)
    /\ k6.batch.v.testSuite = "load"
    /\ k6.batch.v.parallel = TRUE
    /\ k6.batch.v.maxConcurrent = Num(3)

\* the GET batch resolved on a registry with an added GET endpoint
C7_Witness ==
  /\ Resolved("getEndpointsLoad")
  /\ k6.batch.v.endpoints = <<"0", "users-me", "client-configs", "health-check">>

\* C8: the postEndpointsStress batch resolves to exactly the registered
\* keys whose method is POST, with suite stress, sequential mode and a
\* delay of 10 seconds.
C8_PostEndpointsStressBatch ==
  Resolved("postEndpointsStress") =>
    /\ k6.batch.tag = "own"
    /\ Elements(k6.batch.v.endpoints) = KeysOfMethod("POST")
    /\ NoDuplicates(k6.batch.v.endpoints)
    /\ k6.batch.v.testSuite = "stress"
    /\ k6.batch.v.parallel = FALSE
    /\ k6.batch.v.delayBetweenEndpoints = Num(10)

\* the POST batch resolved on a registry with an added POST endpoint
C8_Witness ==
  /\ Resolved("postEndpointsStress")
  /\ k6.batch.v.endpoints = <<"get-orders", "create-user", "auth/signin">>

RECURSIVE Commas(_)
\* the number of commas of a string
Commas(str) ==
  IF str = <<>> THEN 0 ELSE (IF Head(str) = "," THEN 1 ELSE 0) + Commas(Tail(str))

\* str is a decimal numeral
IsDecimal(str) ==
  str # <<>> /\ \A i \in 1..Len(str) : str[i] \in {"0", "1", "2", "3", "4", "5", "6", "7", "8", "9"}

RECURSIVE Decimal(_)
\* the number a decimal numeral denotes
Decimal(str) ==
  IF str = <<>> THEN 0
  ELSE 10 * Decimal(SubSeq(str, 1, Len(str) - 1)) + DigitValue(str[Len(str)])

\* the integer the variable holds, the default d when it is unset
IntegerOr(str, d, n) ==
  /\ str = <<>> => n = Num(d)
  /\ IsDecimal(str) => n = Num(Decimal(str))

\* C9: the custom batch takes each field from the environment when set and
\* the default otherwise: the keys are BATCH_ENDPOINTS cut at its commas, in
\* order and with nothing dropped, else users-me and health-check; the
\* suite is BATCH_TEST_SUITE, else load; the mode is parallel exactly when
\* BATCH_PARALLEL is "true"; the delay is the integer BATCH_DELAY, else 5;
\* maxConcurrent is the integer BATCH_MAX_CONCURRENT, else 2.
C9_CustomBatch ==
  Resolved("custom") =>
    /\ k6.batch.tag = "own"
    /\ LET b == k6.batch.v
       IN /\ IF env.BATCH_ENDPOINTS = <<>>
             THEN b.endpoints = <<"users-me", "health-check">>
             ELSE /\ Join(b.endpoints, ",") = Text(env.BATCH_ENDPOINTS)
                  /\ Len(b.endpoints) = Commas(env.BATCH_ENDPOINTS) + 1
          /\ b.testSuite = IF env.BATCH_TEST_SUITE = "" THEN "load" ELSE env.BATCH_TEST_SUITE
          /\ b.parallel = (env.BATCH_PARALLEL = "true")
          /\ IntegerOr(env.BATCH_DELAY, 5, b.delayBetweenEndpoints)
          /\ IntegerOr(env.BATCH_MAX_CONCURRENT, 2, b.maxConcurrent)

\* the custom batch resolved from BATCH_ENDPOINTS "users-me,0", a suite, a
\* delay of 7 and BATCH_PARALLEL set to something other than "true"
C9_Witness ==
  /\ Resolved("custom")
  /\ env.BATCH_ENDPOINTS = <<"users-me", ",", "0">>
  /\ k6.batch.v.endpoints = <<"users-me", "0">>
  /\ env.BATCH_TEST_SUITE = "stress"
  /\ env.BATCH_PARALLEL = "TRUE"
  /\ k6.batch.v.delayBetweenEndpoints = Num(7)
  /\ k6.batch.v.maxConcurrent = Num(2)

(***************************************************************************)
(* Properties of the batch runs (Spec).                                    *)
(***************************************************************************)
RECURSIVE RequestKeys(_)
\* the keys of the requests among events, in order
RequestKeys(events) ==
  IF events = <<>> THEN <<>>
  ELSE (IF Head(events).ev = "request" THEN <<Head(events).key>> ELSE <<>>)
       \o RequestKeys(Tail(events))

RECURSIVE RegisteredOf(_)
\* the registered keys among keys, in order
RegisteredOf(keys) ==
  IF keys = <<>> THEN <<>>
  ELSE (IF HasKey(endpoints, Head(keys)) THEN <<Head(keys)>> ELSE <<>>)
       \o RegisteredOf(Tail(keys))

\* the first iteration of the test function has handled every key
FirstIterationDone ==
  k6.pc = "default" /\ k6.iteration = 1 /\ k6.index > Len(k6.data.endpoints)

\* C5: in one iteration the runner issues one request for every key of the
\* batch's list that names a registered endpoint, in list order, and skips
\* a key only when it is not in the registry.
C5_RequestPerRegisteredKey ==
  FirstIterationDone => RequestKeys(k6.events) = RegisteredOf(k6.data.endpoints)

BatchNameSet == {"smoke", "getEndpointsLoad", "postEndpointsStress", "custom"}

\* C10: for every batch name other than the four, the resolution fails with
\* the unknown-batch error and exit code 1 and nothing is requested:
\* run-batch-test.sh never starts k6 run, and the runner throws the error
\* before its test function runs.
C10_UnknownBatchFails ==
  /\ (sh.pc # "off" /\ Text(sh.arg) \notin BatchNameSet \cup {"", "-h", "--help"}) =>
       /\ sh.k6Runs = 0
       /\ sh.pc = "exited" => sh.exit = 1
  /\ (k6.pc \notin {"off", "init"} /\ batchKey \notin BatchNameSet) =>
       /\ k6.pc = "exited"
       /\ k6.module = Throw("Error", "Batch configuration '" \o batchKey
                                       \o "' not found. Available: "
                                       \o "smoke, getEndpointsLoad, postEndpointsStress, custom")
       /\ RequestKeys(k6.events) = <<>>
RECURSIVE EventsOf(_, _)
\* the events of the kinds among events, in order
EventsOf(events, kinds) ==
  IF events = <<>> THEN <<>>
  ELSE (IF Head(events).ev \in kinds THEN <<Head(events)>> ELSE <<>>)
       \o EventsOf(Tail(events), kinds)

RECURSIVE PeakInFlight(_, _, _)
\* the largest number of requests in flight along events: a request is in
\* flight from its request event to the event that records its outcome
PeakInFlight(events, inFlight, peak) ==
  IF events = <<>> THEN peak
  ELSE LET now == IF Head(events).ev = "request" THEN inFlight + 1
                  ELSE IF Head(events).ev \in {"check", "error"} /\ inFlight > 0
                  THEN inFlight - 1
                  ELSE inFlight
       IN PeakInFlight(Tail(events), now, IF now > peak THEN now ELSE peak)

\* C11: in sequential mode the runner handles the endpoints one at a time,
\* with at most one request in flight, and sleeps delayBetweenEndpoints
\* seconds after every endpoint of the list except the last.
C11_SequentialDelay ==
  (FirstIterationDone /\ ~k6.data.batch.parallel) =>
    LET keys == k6.data.endpoints
        sleeps == EventsOf(k6.events, {"sleep"})
    IN /\ PeakInFlight(k6.events, 0, 0) <= 1
       /\ Len(sleeps) = Len(keys) - 1
       /\ \A i \in 1..Len(sleeps) :
            /\ sleeps[i].key = keys[i]
            /\ sleeps[i].seconds = k6.data.batch.delayBetweenEndpoints

Min(a, b) == IF a < b THEN a ELSE b

\* C12: in parallel mode the requests in flight never exceed maxConcurrent
\* and nothing else limits them: with n registered endpoints in the list
\* the runner has min(maxConcurrent, n) requests in flight at its peak.
C12_ParallelUpToCap ==
  ( /\ FirstIterationDone
    /\ k6.data.batch.parallel
    /\ k6.data.batch.maxConcurrent.t = "num" ) =>
    PeakInFlight(k6.events, 0, 0)
      = Min(k6.data.batch.maxConcurrent.n, Len(RegisteredOf(k6.data.endpoints)))

RECURSIVE KeysOf(_)
\* the keys of events, in order
KeysOf(events) ==
  IF events = <<>> THEN <<>> ELSE <<Head(events).key>> \o KeysOf(Tail(events))

EndpointIterationDone ==
  et.pc = "default" /\ et.iteration >= 1 /\ "endpoint" \in DOMAIN et.data

\* events holds the missing-token warning for key and a request for key
\* that carries no Authorization header
UnauthenticatedAttempt(events, key) ==
  /\ \E i \in 1..Len(events) :
       events[i].ev = "warn" /\ events[i].what = "AUTH_TOKEN not provided"
       /\ events[i].key = key
  /\ \E i \in 1..Len(events) :
       events[i].ev = "request" /\ events[i].key = key
       /\ "Authorization" \notin DOMAIN events[i].headers

\* the registered keys of the list whose endpoint requires authentication
AuthKeysOf(keys) ==
  { k \in Elements(RegisteredOf(keys)) : Get(endpoints, k).requiresAuth }

\* endpoint-test.js without a token: warning and unauthenticated request
MissingTokenEndpointTest ==
  (env.AUTH_TOKEN = "" /\ EndpointIterationDone /\ et.data.endpoint.requiresAuth) =>
    UnauthenticatedAttempt(et.events, endpointKey)

\* the batch runner without a token: the same for every endpoint of the
\* list that requires authentication
MissingTokenBatch ==
  (env.AUTH_TOKEN = "" /\ FirstIterationDone) =>
    \A key \in AuthKeysOf(k6.data.endpoints) : UnauthenticatedAttempt(k6.events, key)

\* run-endpoint-test.sh without a token: the warning, and the run goes on
MissingTokenShell ==
  ( /\ env.AUTH_TOKEN = ""
    /\ esh.pc \in {"confirm", "run", "wait"}
    /\ HasKey(LoadEndpoints(endpointsFile), FirstWord(esh.ENDPOINT))
    /\ Get(LoadEndpoints(endpointsFile), FirstWord(esh.ENDPOINT)).requiresAuth ) =>
    \E i \in 1..Len(esh.out) : esh.out[i] = "Continuing without authentication"

\* C14: with AUTH_TOKEN unset or empty, an endpoint that requires
\* authentication is still requested, without an Authorization header and
\* with a warning: in endpoint-test.js, in the batch runner, and (the
\* warning, the run going on) in run-endpoint-test.sh.
C14_MissingTokenDegrades ==
  MissingTokenEndpointTest /\ MissingTokenBatch /\ MissingTokenShell

\* the requests for key among events
RequestsFor(events, key) ==
  { i \in 1..Len(events) : events[i].ev = "request" /\ events[i].key = key }

\* events shows the dispatch of an endpoint of the given method under key:
\* one request by that method for one of the five methods, else no request
\* and the unsupported-method error
Dispatched(events, key, method) ==
  IF method \in Methods
  THEN \E i \in RequestsFor(events, key) :
         /\ RequestsFor(events, key) = {i}
         /\ events[i].method = method
  ELSE /\ RequestsFor(events, key) = {}
       /\ \E i \in 1..Len(events) :
            /\ events[i].ev = "error" /\ events[i].key = key
            /\ events[i].message = "Unsupported HTTP method: " \o method

\* endpoint-test.js dispatches by the method of its endpoint
DispatchEndpointTest ==
  EndpointIterationDone => Dispatched(et.events, endpointKey, et.data.endpoint.method)

\* the batch runner dispatches every registered endpoint of its list by the
\* endpoint's method
DispatchBatch ==
  FirstIterationDone =>
    \A key \in Elements(RegisteredOf(k6.data.endpoints)) :
      Dispatched(k6.events, key, Get(endpoints, key).method)

\* C15: an endpoint is requested by its method: one HTTP call by GET, POST,
\* PUT, PATCH or DELETE, and for any other method the unsupported-method
\* error and no request, in endpoint-test.js and in the batch runner.
C15_DispatchByMethod ==
  DispatchEndpointTest /\ DispatchBatch

\* the check event e records the three checks of the endpoint ep, each one
\* the result of its own condition on the response
ThreeChecksRecorded(e, ep) ==
  /\ {"status", "time", "headers"} \subseteq DOMAIN e.checks
  /\ e.checks.status = (e.response.status = ep.validation.expectedStatus)
  /\ e.checks.time = (e.response.duration < ep.validation.responseTime)
  /\ e.checks.headers
       = (\A i \in 1..Len(ep.validation.requiredHeaders) :
            ep.validation.requiredHeaders[i] \in e.response.headers)

\* the check events among events
CheckEvents(events) == { i \in 1..Len(events) : events[i].ev = "check" }

\* C16: for every response three checks are evaluated and each is recorded
\* whatever the others give: the status equals expectedStatus, the duration
\* is strictly below responseTime, every required header is present; and
\* for health-check a 200 answer faster than the limit that carries
\* Content-Type passes every recorded check.
C16_IndependentChecks ==
  /\ EndpointIterationDone =>
       /\ RequestsFor(et.events, endpointKey) # {} => CheckEvents(et.events) # {}
       /\ \A i \in CheckEvents(et.events) :
            /\ ThreeChecksRecorded(et.events[i], et.data.endpoint)
            /\ ( /\ endpointKey = "health-check"
                 /\ et.events[i].response.status = 200
                 /\ et.events[i].response.duration < et.data.endpoint.validation.responseTime
                 /\ "Content-Type" \in et.events[i].response.headers ) =>
                 \A c \in DOMAIN et.events[i].checks : et.events[i].checks[c]
  /\ k6.pc = "default" =>
       \A i \in CheckEvents(k6.events) :
         /\ HasKey(endpoints, k6.events[i].key)
         /\ ThreeChecksRecorded(k6.events[i], Get(endpoints, k6.events[i].key))

\* health-check answered 500 in time and with Content-Type: the status
\* check fails, the two checks after it are recorded as passed
C16_Witness ==
  /\ EndpointIterationDone
  /\ endpointKey = "health-check"
  /\ \E i \in CheckEvents(et.events) :
       /\ et.events[i].response.status = 500
       /\ et.events[i].checks
            = [status |-> FALSE, time |-> TRUE, headers |-> TRUE]

SuiteNameList == <<"smoke", "load", "stress", "spike", "endurance", "soak">>

\* the message says what was not found and lists the names, in the form
\* the code's messages have
ListsAlternatives(message, notFound, names) ==
  \E intro \in {". Available: ", ". Available endpoints: "} :
    message = notFound \o intro \o Join(names, ", ")

Printed(out, line) == \E i \in 1..Len(out) : out[i] = line

\* the shell validators: a rejected name ends the script before k6 run,
\* with the list of names
UnknownReportedShell ==
  /\ (sh.pc = "exited" /\ Printed(sh.out, "Invalid batch configuration")) =>
       sh.k6Runs = 0 /\ Printed(sh.out, "Available batch configurations")
  /\ (esh.pc = "exited" /\ Printed(esh.out, "Invalid endpoint")) =>
       esh.k6Runs = 0 /\ Printed(esh.out, "Available endpoints")
  /\ (esh.pc = "exited" /\ Printed(esh.out, "Invalid test suite")) =>
       esh.k6Runs = 0 /\ Printed(esh.out, "Available test suites")

\* endpoint-test.js: an endpoint key that is not registered
UnknownEndpointReported ==
  (et.pc \notin {"off", "init"} /\ ~HasKey(endpoints, endpointKey)) =>
    /\ et.pc = "exited"
    /\ et.events = <<>>
    /\ et.module.kind = "throw"
    /\ ListsAlternatives(et.module.message,
                         "Endpoint '" \o endpointKey \o "' not found",
                         ObjectKeys(endpoints))

\* endpoint-test.js through mergeConfigs: a suite name that is not
\* registered
UnknownSuiteReported ==
  ( /\ et.pc \notin {"off", "init"}
    /\ HasKey(endpoints, endpointKey)
    /\ testSuite \notin RegisteredSuites ) =>
    /\ et.pc = "exited"
    /\ et.events = <<>>
    /\ et.module.kind = "throw"
    /\ ListsAlternatives(et.module.message,
                         "Test suite '" \o testSuite \o "' not found", SuiteNameList)

\* the batch runner: a batch name that is not registered, or a batch whose
\* suite is not registered
UnknownBatchReported ==
  /\ (k6.pc \notin {"off", "init"} /\ batchKey \notin BatchNameSet) =>
       /\ k6.pc = "exited"
       /\ RequestKeys(k6.events) = <<>>
       /\ k6.module.kind = "throw"
       /\ ListsAlternatives(k6.module.message,
                            "Batch configuration '" \o batchKey \o "' not found",
                            BatchNames)
  /\ ( /\ k6.pc \notin {"off", "init"}
       /\ batchKey \in BatchNameSet
       /\ k6.batch.v.testSuite \notin RegisteredSuites ) =>
       /\ k6.pc = "exited"
       /\ RequestKeys(k6.events) = <<>>
       /\ k6.module.kind = "throw"
       /\ ListsAlternatives(k6.module.message,
                            "Test suite '" \o k6.batch.v.testSuite \o "' not found",
                            SuiteNameList)

\* C18: an endpoint key, suite name or batch name that is not registered
\* stops the run before any request, with an error that lists the valid
\* names: in the shell validators, in endpoint-test.js (endpoint lookup
\* and mergeConfigs) and in the batch runner.
C18_UnknownNamesReported ==
  /\ UnknownReportedShell
  /\ UnknownEndpointReported
  /\ UnknownSuiteReported
  /\ UnknownBatchReported

\* run-batch-test.sh has ended as the claim's cases say
BatchShellExit ==
  sh.pc = "exited" =>
    /\ (sh.k6Runs = 1 /\ k6.exit = 0) => sh.exit = 0
    /\ Printed(sh.out, "Batch test cancelled by user") => sh.exit = 0 /\ sh.k6Runs = 0
    /\ Printed(sh.out, "Invalid batch configuration") => sh.exit = 1 /\ sh.k6Runs = 0
    /\ ( /\ sh.installed
         /\ Len(sh.arg) = 1
         /\ Text(sh.arg) \notin BatchNameSet \cup {"-h", "--help"} ) =>
         Printed(sh.out, "Invalid batch configuration")
    /\ ~sh.installed => sh.exit = 1 /\ sh.k6Runs = 0

\* run-endpoint-test.sh has ended as the claim's cases say
EndpointShellExit ==
  esh.pc = "exited" =>
    /\ (esh.k6Runs = 1 /\ et.exit = 0) => esh.exit = 0
    /\ Printed(esh.out, "Test cancelled by user") => esh.exit = 0 /\ esh.k6Runs = 0
    /\ (Printed(esh.out, "Invalid endpoint") \/ Printed(esh.out, "Invalid test suite")) =>
         esh.exit = 1 /\ esh.k6Runs = 0
    /\ ~esh.installed => esh.exit = 1 /\ esh.k6Runs = 0

\* C19: the two wrappers exit with 0 when the test completed successfully
\* or the user declined the confirmation, and with 1 when an argument was
\* rejected by the validation or k6 is not installed; when declined,
\* rejected or without k6 they never start k6 run.
C19_ExitCodes ==
  BatchShellExit /\ EndpointShellExit

\* run-endpoint-test.sh asked before the soak suite, the user answered n
C19_Witness ==
  /\ esh.pc = "exited"
  /\ Text(esh.TEST_SUITE) = "soak"
  /\ Printed(esh.out, "Test cancelled by user")
  /\ esh.exit = 0
  /\ esh.k6Runs = 0

\* C20: with -h or --help as the first argument the wrapper prints its
\* usage and exits with 0, without validation, prompt or k6 run.
C20_HelpExitsZero ==
  /\ (sh.pc = "exited" /\ Text(sh.arg) \in {"-h", "--help"}) =>
       /\ sh.exit = 0
       /\ Printed(sh.out, "Usage")
       /\ ~Printed(sh.out, "Test Configuration")
       /\ sh.k6Runs = 0
  /\ (esh.pc = "exited" /\ Len(esh.args) >= 1 /\ Text(esh.args[1]) \in {"-h", "--help"}) =>
       /\ esh.exit = 0
       /\ Printed(esh.out, "Usage")
       /\ ~Printed(esh.out, "Test Configuration")
       /\ esh.k6Runs = 0

(***************************************************************************)
(* Properties of buildUrl (SpecUrl).                                       *)
(***************************************************************************)
\* the value the parameter map gives the fragment, the fragment itself
\* when it is not a placeholder the map names
Substituted(fragment, params) ==
  IF \E j \in 1..Len(params) : fragment = "{" \o params[j].key \o "}"
  THEN params[CHOOSE j \in 1..Len(params) : fragment = "{" \o params[j].key \o "}"].value
  ELSE fragment

\* C17: for a registered key buildUrl returns baseUrl followed by the path
\* in which every placeholder the parameter map names is replaced by the
\* map's value and every other fragment is left as it is; for a key that
\* is not registered it throws "Endpoint '<key>' not found".
C17_BuildUrl ==
  built.result.kind # "none" =>
    IF HasKey(endpoints, built.endpointKey)
    THEN LET ep == Get(endpoints, built.endpointKey)
         IN built.result
              = Return(<<ep.baseUrl>>
                       \o [i \in 1..Len(ep.path) |-> Substituted(ep.path[i], built.params)])
    ELSE built.result
           = Throw("Error", "Endpoint '" \o built.endpointKey \o "' not found")

(***************************************************************************)
(* Properties of the registry as the single place of configuration (Spec). *)
(***************************************************************************)
\* the keys of config/endpoints.js on disk
FileKeys == { endpointsFile[i].key : i \in 1..Len(endpointsFile) }

\* run-endpoint-test.sh was given one registered key and got to its
\* validation
WrapperGivenRegisteredKey ==
  /\ esh.pc \notin {"off", "check_k6", "parse", "validate_endpoint"}
  /\ esh.installed
  /\ Len(esh.args) >= 1
  /\ Len(esh.args[1]) = 1
  /\ Text(esh.args[1]) \in FileKeys

\* C21: every key of config/endpoints.js, shipped or added, is accepted by
\* validate_endpoint of run-endpoint-test.sh, run-with-dashboard.sh and
\* run-with-influxdb.sh, and endpoint-test.js loads for it with every
\* registered suite.
C21_RegistryKeysAccepted ==
  /\ WrapperGivenRegisteredKey => ~Printed(esh.out, "Invalid endpoint")
  /\ \A key \in FileKeys :
       dashboard_validate_endpoint(<<key>>) /\ influxdb_validate_endpoint(<<key>>)
  /\ ( /\ et.pc \notin {"off", "init"}
       /\ HasKey(endpoints, endpointKey)
       /\ testSuite \in {"smoke", "load", "stress", "spike", "endurance", "soak"} ) =>
       et.module.kind = "return"

(***************************************************************************)
(* Properties of add-endpoint.js (SpecAdd).                                *)
(***************************************************************************)
\* the last run of add-endpoint.js was given four arguments that pass
\* validateInput
FourValidArguments ==
  /\ ae.mode # "none"
  /\ Len(ae.args) = 4
  /\ validateInput(ae.version, ae.args[1], ae.args[2], ae.args[3], ae.args[4]) = <<>>

\* the configuration main generates for the inputs
GeneratedConfig(version, in) ==
  IF version = "plain"
  THEN generateEndpointConfig(Text(in.endpointKey), Text(in.method), in.path, Text(in.baseUrl))
  ELSE generateEndpointConfigEnv(Text(in.endpointKey), Text(in.method), in.path,
                                 Text(in.baseUrl))

\* C22: with four arguments (key, method, path, base URL) that pass
\* validateInput, add-endpoint.js takes the command-line path, uses the
\* four values without prompting for them, and writes the generated
\* endpoint into the file once the user has confirmed.
C22_CommandLineArguments ==
  FourValidArguments =>
    LET in == TypedInput(ae.args[1], ae.args[2], ae.args[3], ae.args[4])
    IN /\ ae.mode = "command line"
       /\ ae.inputs = in
       /\ ae.prompts = <<"confirm">>
       /\ Confirmed(ae.answer) =>
            /\ ae.wrote
            /\ endpointsFile
                 = updateEndpointsFile(ae.before, Text(in.endpointKey),
                                       GeneratedConfig(ae.version, in))

\* the inputs are what the validation is said to let through
ValidInputs(in) ==
  /\ in.endpointKey # <<>>
  /\ \A i \in 1..Len(in.endpointKey) :
       in.endpointKey[i] \in LowercaseLetters \cup DecimalDigits \cup {"-"}
  /\ toUpperCase(Text(in.method)) \in {"GET", "POST", "PUT", "PATCH", "DELETE"}
  /\ in.path # <<>> /\ in.path[1] = "/"
  /\ Trim(in.baseUrl) # <<>>

\* the run asked for the confirmation and got a line that declines
Declined ==
  /\ ae.prompts # <<>>
  /\ ae.prompts[Len(ae.prompts)] = "confirm"
  /\ ae.answer # <<"EOF">>
  /\ ~Confirmed(ae.answer)

\* C28: add-endpoint.js writes the file only when validateInput found no
\* error in the key (lowercase letters, digits, hyphens), the method (one
\* of the five, in either case), the path (starting with /) and the base
\* URL, and the confirmation starts with y or Y; a validation error ends
\* the run with 1 and a declined confirmation with 0, the file unchanged.
C28_WritesOnlyValidatedAndConfirmed ==
  /\ ae.wrote =>
       /\ ae.errors = <<>>
       /\ ValidInputs(ae.inputs)
       /\ Confirmed(ae.answer)
  /\ (ae.mode \in {"command line", "interactive"} /\ ~ValidInputs(ae.inputs)) =>
       ae.errors # <<>>
  /\ ae.errors # <<>> => ae.exit = 1 /\ ~ae.wrote /\ endpointsFile = ae.before
  /\ Declined => ae.exit = 0 /\ ~ae.wrote /\ endpointsFile = ae.before
  /\ ~ae.wrote => (ae.mode = "none" \/ endpointsFile = ae.before)

\* an interactive run with valid answers, declined at the confirmation
C28_Witness ==
  /\ ae.mode = "interactive"
  /\ ValidInputs(ae.inputs)
  /\ Declined
  /\ ae.exit = 0
  /\ endpointsFile = ae.before

RECURSIVE KeysAmong(_, _)
\* the keys of registry reg that are keys of registry old, in reg's order
KeysAmong(reg, old) ==
  IF reg = <<>> THEN <<>>
  ELSE (IF HasKey(old, Head(reg).key) THEN <<Head(reg).key>> ELSE <<>>)
       \o KeysAmong(Tail(reg), old)

\* C23: an add by updateEndpointsFile alters no existing entry: every key
\* the registry had keeps its value and its place among the keys the
\* registry had, also when the added key is one of them.
C23_ExistingEntriesUnaltered ==
  ae.wrote =>
    LET old == LoadEndpoints(ae.before)
        new == LoadEndpoints(endpointsFile)
    IN /\ \A i \in 1..Len(old) :
            HasKey(new, old[i].key) /\ Get(new, old[i].key) = old[i].value
       /\ KeysAmong(new, old) = ObjectKeys(old)

\* C30: after updateEndpointsFile(key, config) has returned true the
\* registry loaded from the file maps key to config, whether or not the
\* key was in the registry before.
C30_AddedKeyMapsToConfig ==
  ae.wrote =>
    LET new == LoadEndpoints(endpointsFile)
        key == Text(ae.inputs.endpointKey)
    IN HasKey(new, key) /\ Get(new, key) = ae.config

TokenOnlyWhenRequired(request) ==
  LET required == HasKey(endpoints, request.key) /\ Get(endpoints, request.key).requiresAuth
  IN /\ ("Authorization" \in DOMAIN request.headers) = (required /\ env.AUTH_TOKEN # "")
     /\ "Authorization" \in DOMAIN request.headers =>
          request.headers["Authorization"] = "Bearer " \o env.AUTH_TOKEN

\* C26: a request carries an Authorization header exactly when its endpoint
\* has requiresAuth = true and AUTH_TOKEN is not empty, with the value
\* "Bearer <token>"; an endpoint with requiresAuth = false never gets the
\* token, in endpoint-test.js and in the batch runner.
C26_TokenOnlyWhenRequired ==
  /\ \A i \in 1..Len(et.events) :
       et.events[i].ev = "request" => TokenOnlyWhenRequired(et.events[i])
  /\ \A i \in 1..Len(k6.events) :
       k6.events[i].ev = "request" => TokenOnlyWhenRequired(k6.events[i])

\* endpoint-test.js has sent the token to an endpoint that requires it
C26_Witness ==
  /\ env.AUTH_TOKEN = "token"
  /\ \E i \in 1..Len(et.events) :
       /\ et.events[i].ev = "request"
       /\ Get(endpoints, et.events[i].key).requiresAuth
       /\ et.events[i].headers["Authorization"] = "Bearer token"

(***************************************************************************)
(* Properties of the batch runner's options (SpecPlan).                    *)
(***************************************************************************)
\* C27: the options the batch runner exports take every field other than
\* thresholds from the selected suite's config and nothing else; their
\* thresholds are the suite's, except that http_req_duration and
\* http_req_failed are the batch's fixed 'p95<1000' and 'rate<0.05'.
C27_BatchOptions ==
  (k6.pc \notin {"off", "init"} /\ k6.module.kind = "return") =>
    LET options == k6.module.value.options
        suite == testSuites[k6.batch.v.testSuite].config
    IN /\ DOMAIN options = DOMAIN suite \cup {"thresholds"}
       /\ \A field \in DOMAIN suite \ {"thresholds"} : options[field] = suite[field]
       /\ DOMAIN options.thresholds
            = DOMAIN suite.thresholds \cup {"http_req_duration", "http_req_failed"}
       /\ options.thresholds.http_req_duration = <<"p95<1000">>
       /\ options.thresholds.http_req_failed = <<"rate<0.05">>
       /\ \A metric \in DOMAIN suite.thresholds \ {"http_req_duration", "http_req_failed"} :
            options.thresholds[metric] = suite.thresholds[metric]

\* the custom batch with the stress suite: the stages are the suite's and
\* the suite's own limit for http_req_duration has been replaced
C27_Witness ==
  /\ k6.pc = "setup"
  /\ batchKey = "custom"
  /\ k6.batch.v.testSuite = "stress"
  /\ k6.module.value.options.stages = testSuites["stress"].config.stages
  /\ testSuites["stress"].config.thresholds.http_req_duration = <<"p(95)<1000">>
  /\ k6.module.value.options.thresholds.http_req_duration = <<"p95<1000">>

(***************************************************************************)
(* Properties of the wrappers' ending (Spec).                              *)
(***************************************************************************)
\* C29: run-batch-test.sh and run-endpoint-test.sh have printed their
\* "completed successfully" message only after their one k6 run returned 0,
\* and then they exit 0; after a k6 run that returned another status they
\* have exited with a non-zero status and have not printed the message.
C29_SuccessOnlyAfterK6Success ==
  /\ Printed(sh.out, "Batch test completed successfully!") =>
       sh.k6Runs = 1 /\ k6.pc = "exited" /\ k6.exit = 0 /\ sh.pc = "exited" /\ sh.exit = 0
  /\ Printed(esh.out, "Test completed successfully!") =>
       esh.k6Runs = 1 /\ et.pc = "exited" /\ et.exit = 0 /\ esh.pc = "exited" /\ esh.exit = 0
  /\ (sh.pc = "exited" /\ sh.k6Runs = 1 /\ k6.exit # 0) =>
       sh.exit # 0 /\ ~Printed(sh.out, "Batch test completed successfully!")
  /\ (esh.pc = "exited" /\ esh.k6Runs = 1 /\ et.exit # 0) =>
       esh.exit # 0 /\ ~Printed(esh.out, "Test completed successfully!")

\* run-endpoint-test.sh has ended after a k6 run that failed
C29_Witness ==
  /\ esh.pc = "exited"
  /\ esh.k6Runs = 1
  /\ et.exit \in FailureCodes
  /\ esh.exit = et.exit
  /\ ~Printed(esh.out, "Test completed successfully!")

(***************************************************************************)
(* Properties of the registries' frame (SpecFrame).                        *)
(***************************************************************************)
\* a step in which a process loads the registries: k6 starts one of the two
\* scripts, or config/endpoints.js is imported anew
LoadStep ==
  /\ endpoints' = LoadEndpoints(endpointsFile)
  /\ \/ k6.pc = "off" /\ k6'.pc = "init"
     \/ et.pc = "off" /\ et'.pc = "init"
     \/ UNCHANGED <<endpointsFile, testSuites, merged, built, env, sh, k6, esh, et, ae, got>>

\* C25: the two registries keep the values they were loaded with: a step
\* that is not a load (a call of mergeConfigs, of a getter or of buildUrl,
\* a stage or an iteration of either test script) leaves both unchanged,
\* and the suite registry is the shipped one throughout.
C25_RegistriesNotMutated ==
  [][ /\ LoadStep \/ endpoints' = endpoints
      /\ testSuites' = testSuites
      /\ testSuites' = ShippedTestSuites ]_vars

\* every helper has been called and an iteration of endpoint-test.js has
\* issued a request, on a registry that holds an added endpoint
C25_Witness ==
  /\ got.fn = "getAuthenticatedEndpoints"
  /\ merged.result.kind = "return"
  /\ built.result.kind = "return"
  /\ \E i \in 1..Len(et.events) : et.events[i].ev = "request"
  /\ Len(endpoints) > Len(ShippedEndpointsFile)
  /\ endpoints = LoadEndpoints(endpointsFile)
====
